---- MODULE Spec2Model ----
(***************************************************************************)
(* Session registry, chat cache/throttle coordinator and unread override   *)
(* of backend/src/whatsapp/whatsapp.service.ts (class WhatsappService),    *)
(* and the session registry of src/lib/whatsapp-service.ts (class          *)
(* WhatsAppService).                                                        *)
(*                                                                         *)
(* JavaScript runs one callback at a time: every action below is the code  *)
(* between two suspension points (await) of one handler.  Date.now() is    *)
(* the variable now, in milliseconds.                                       *)
(***************************************************************************)
EXTENDS Integers, Sequences, FiniteSets, Bags, TLC

(***************************************************************************)
(* Program constants (milliseconds).                                        *)
(***************************************************************************)
CACHE_DURATION == 120000
MIN_FETCH_INTERVAL == 30000
FETCH_TIMEOUT == 15000
MAX_BACKOFF == 300000
\* the guard timer of createSession
INIT_TIMEOUT == 30000
\* FETCH_TIMEOUT of getMessages
MSG_FETCH_TIMEOUT == 5000

(***************************************************************************)
(* Bounds of the model.                                                     *)
(***************************************************************************)
\* number of clock steps the model takes
MaxTicks == 9
\* number of operations that may be suspended at an await at the same time
MaxCalls == 2
\* number of session objects ever created by the backend service
MaxInst == 2
\* number of upstream fetches started
MaxFetches == 3
\* number of session objects ever created by the lib service
MaxLibInst == 2
\* number of getOrCreateSession calls of the lib service in flight
MaxLibCalls == 2
\* number of QR payloads of one driver whose encoding is pending
MaxQr == 1

\* the clock advances in steps of the shortest timer of the code
TimeStep == FETCH_TIMEOUT
\* Date.now() at process start, larger than every interval of the code
StartTime == MAX_BACKOFF
EndTime == StartTime + MaxTicks * TimeStep

None == "none"
\* an absent timestamp
NoTime == -1
\* an absent chatCache entry (Map.get returns undefined)
NoEntry == [chats |-> << >>, timestamp |-> NoTime]

\* client-supplied session identifiers (arbitrary strings)
SessionIds == {"a", "a-normal"}
ChatIds == {"c1", "c2", "c3", "c4"}
\* the chats the operator marks as read
MarkIds == {"c1"}
\* the chats the operator opens
MessageChatIds == {"g1"}

(***************************************************************************)
(* Upstream chat records: timestamp in seconds as whatsapp-web.js reports  *)
(* it, hasLast = FALSE when chat.lastMessage is undefined.                  *)
(***************************************************************************)
Chat(id, arch, hasLast, ts, fromMe, unread) ==
    [id |-> id, archived |-> arch, hasLast |-> hasLast, ts |-> ts,
     fromMe |-> fromMe, unreadCount |-> unread]

\* what client.getChats() may resolve to: the account at three moments
Upstream1 ==
    << Chat("c1", FALSE, TRUE, 300, FALSE, 2),
       Chat("c3", TRUE, TRUE, 310, FALSE, 1),
       Chat("c2", FALSE, TRUE, 290, TRUE, 0) >>
\* the owner answered in c1
Upstream2 ==
    << Chat("c3", TRUE, TRUE, 310, FALSE, 1),
       Chat("c2", FALSE, TRUE, 290, TRUE, 0),
       Chat("c1", FALSE, TRUE, 315, TRUE, 2) >>
\* a new chat without messages, and new messages from the peer in c1
Upstream3 ==
    << Chat("c4", FALSE, FALSE, 0, FALSE, 0),
       Chat("c2", FALSE, TRUE, 290, TRUE, 0),
       Chat("c3", TRUE, TRUE, 310, FALSE, 1),
       Chat("c1", FALSE, TRUE, 345, FALSE, 3) >>
UpstreamResults == { Upstream1, Upstream2, Upstream3 }

\* (offset, limit) pairs of the listChats calls
PageArgs == { <<0, 2>>, <<2, 2>> }

(***************************************************************************)
(* Pure helpers of getChats.                                                *)
(***************************************************************************)
\* `${sessionId}-${archived ? 'archived' : 'normal'}`
CacheKey(sessionId, archived) ==
    sessionId \o (IF archived THEN "-archived" ELSE "-normal")

\* every key the chatCache map is ever read, written or deleted with
CacheKeys ==
    SessionIds \cup { CacheKey(s, a) : s \in SessionIds, a \in BOOLEAN }

Min(x, y) == IF x < y THEN x ELSE y

\* a plausible slip: the list is stored as the driver gave it
FilterArchived_All(chats, archived) == chats

\* chats.filter(chat => chat.archived) / chats.filter(chat => !chat.archived)
FilterArchived(chats, archived) ==
    SelectSeq(chats, LAMBDA c : c.archived = archived)

\* a.lastMessage?.timestamp || 0
SortKey(c) == IF c.hasLast THEN c.ts ELSE 0

\* one step of the stable sort: put c behind every element that does not
\* compare after it (bTime - aTime <= 0 keeps the earlier element first)
RECURSIVE InsertDesc(_, _)
InsertDesc(c, sorted) ==
    IF sorted = << >> THEN << c >>
    ELSE IF SortKey(Head(sorted)) >= SortKey(c)
         THEN << Head(sorted) >> \o InsertDesc(c, Tail(sorted))
         ELSE << c >> \o sorted

\* allChats.sort((a, b) => bTime - aTime), stable
RECURSIVE SortDesc(_)
SortDesc(chats) ==
    IF chats = << >> THEN << >>
    ELSE LET n == Len(chats)
         IN InsertDesc(chats[n], SortDesc(SubSeq(chats, 1, n - 1)))

\* a plausible slip: slice(offset, limit), the limit taken as the end index
Slice_EndIsLimit(chats, offset, limit) ==
    LET n == Len(chats)
        from == Min(offset, n)
        to == Min(limit, n)
    IN SubSeq(chats, from + 1, to)

\* allChats.slice(offset, offset + limit) for offset, limit >= 0
Slice(chats, offset, limit) ==
    LET n == Len(chats)
        from == Min(offset, n)
        to == Min(offset + limit, n)
    IN SubSeq(chats, from + 1, to)

\* a plausible slip: the override ignores who sent the last message
UnreadCount_AnySender(chat, seen) ==
    LET lastSeenTimestamp == seen[chat.id]
    IN IF /\ lastSeenTimestamp # NoTime
          /\ lastSeenTimestamp # 0
          /\ chat.hasLast
          /\ chat.ts * 1000 <= lastSeenTimestamp
       THEN 0
       ELSE chat.unreadCount

\* the unread count reported for one chat, seen == sessionLastSeen
UnreadCount(chat, seen) ==
    LET lastSeenTimestamp == seen[chat.id]
    IN IF /\ lastSeenTimestamp # NoTime
          /\ lastSeenTimestamp # 0
          /\ chat.hasLast
          /\ ~chat.fromMe
          /\ chat.ts * 1000 <= lastSeenTimestamp
       THEN 0
       ELSE chat.unreadCount

\* one element of formattedChats
FormatChat(chat, seen) ==
    [id |-> chat.id,
     hasLast |-> chat.hasLast,
     timestamp |-> IF chat.hasLast THEN chat.ts * 1000 ELSE 0,
     fromMe |-> chat.hasLast /\ chat.fromMe,
     unreadCount |-> UnreadCount(chat, seen)]

FormatAll(chats, seen) ==
    [i \in 1..Len(chats) |-> FormatChat(chats[i], seen)]

\* the value getChats returns for the snapshot allChats
ListResult(allChats, offset, limit, seen) ==
    [chats |-> FormatAll(Slice(allChats, offset, limit), seen),
     hasMore |-> offset + limit < Len(allChats),
     total |-> Len(allChats)]


(***************************************************************************)
(* State of WhatsappService (backend).                                      *)
(***************************************************************************)
VARIABLES
    now,               \* Date.now()
    sessions,          \* this.sessions: identifier -> session object (0: absent)
    inst,              \* the session objects ever created, with their driver
    nextInst,          \* number of session objects created so far
    chatCache,         \* this.chatCache: key -> entry
    lastFetchTime,     \* this.lastFetchTime: identifier -> timestamp
    lastSeenMessages,  \* this.lastSeenMessages: identifier -> chat -> timestamp
    calls,             \* operations suspended at an await (a bag)
    last,              \* history: the step the service took last
    backoffs,          \* history: backoffInterval of the timeouts in a row
    refreshWin,        \* history: fetches started after a refreshChatCache
    fetches,           \* history: number of upstream fetches started so far
    abandoned,         \* upstream getChats calls that lost the race and settle late
    libSessions,       \* lib service: this.sessions
    libInst,           \* lib service: the session objects ever created
    libNextInst,       \* lib service: number of session objects created
    libInitialized,    \* lib service: this.initialized
    libCalls,          \* lib service: getOrCreateSession calls awaiting initialize()
    libLast            \* history: the step the lib service took last

backendVars == << now, sessions, inst, nextInst, chatCache, lastFetchTime,
                  lastSeenMessages, calls, last, backoffs,
                  refreshWin, fetches, abandoned >>
libVars == << libSessions, libInst, libNextInst, libInitialized, libCalls, libLast >>
vars == << backendVars, libVars >>

Insts == 1..MaxInst

\* a session object that does not exist yet
NoInst == [sessionId |-> None, status |-> None, qrCode |-> None,
           client |-> FALSE, initialize |-> None, page |-> None,
           removed |-> FALSE, initTimeout |-> NoTime, qrPending |-> 0]

\* a session object of the lib service that does not exist yet
NoLibInst == [sessionId |-> None, status |-> None, qrCode |-> None,
              removed |-> FALSE]

\* history: no refreshChatCache was called since the throttle last opened
NoWin == [open |-> FALSE, started |-> 0]

\* an empty chat -> timestamp map
NoSeen == [c \in ChatIds |-> NoTime]

Init ==
    /\ now = StartTime
    /\ sessions = [s \in SessionIds |-> 0]
    /\ inst = [i \in Insts |-> NoInst]
    /\ nextInst = 0
    /\ chatCache = [k \in CacheKeys |-> NoEntry]
    /\ lastFetchTime = [s \in SessionIds |-> NoTime]
    /\ lastSeenMessages = [s \in SessionIds |-> [has |-> FALSE, seen |-> NoSeen]]
    /\ calls = EmptyBag
    /\ last = [op |-> None]
    /\ backoffs = [s \in SessionIds |-> << >>]
    /\ refreshWin = [s \in SessionIds |-> NoWin]
    /\ fetches = 0
    /\ abandoned = {}
    /\ libSessions = [s \in SessionIds |-> 0]
    /\ libInst = [i \in 1..MaxLibInst |-> NoLibInst]
    /\ libNextInst = 0
    /\ libInitialized = FALSE
    /\ libCalls = EmptyBag
    /\ libLast = [op |-> None]

(***************************************************************************)
(* Helpers on the state.                                                    *)
(***************************************************************************)
\* a plausible slip: the status of the session is not looked at
NotReady_Absent(sessionId) ==
    \/ sessions[sessionId] = 0
    \/ ~inst[sessions[sessionId]].client

\* !session || !session.client || session.status !== 'ready'
NotReady(sessionId) ==
    \/ sessions[sessionId] = 0
    \/ ~inst[sessions[sessionId]].client
    \/ inst[sessions[sessionId]].status # "ready"

\* this.sessions.delete(sessionId): the object that was registered is gone
SessionsDelete(ins, sessionId) ==
    IF sessions[sessionId] = 0 THEN ins
    ELSE [ins EXCEPT ![sessions[sessionId]].removed = TRUE]

\* session.client.destroy(): the browser of the driver is closed
Destroy(ins, i) == [ins EXCEPT ![i].page = "closed"]

\* this.lastFetchTime.get(sessionId) || 0
LastFetch(sessionId) ==
    IF lastFetchTime[sessionId] = NoTime THEN 0 ELSE lastFetchTime[sessionId]

\* timeSinceLastFetch < MIN_FETCH_INTERVAL at time t
Throttled(sessionId, t) == t - LastFetch(sessionId) < MIN_FETCH_INTERVAL

\* if (!this.lastSeenMessages.has(sessionId)) this.lastSeenMessages.set(sessionId, new Map())
SeenInit(sessionId) ==
    IF ~lastSeenMessages[sessionId].has
    THEN [lastSeenMessages EXCEPT ![sessionId] = [has |-> TRUE, seen |-> NoSeen]]
    ELSE lastSeenMessages

Suspend(c) == calls (+) SetToBag({c})
Resume(c) == calls (-) SetToBag({c})
CanSuspend == BagCardinality(calls) < MaxCalls

\* a plausible slip: the upstream call is awaited without a timer
TimerDue_Never(c) == FALSE

\* a timer of a suspended getChats is due
TimerDue(c) == c.op = "getChats" /\ now - c.startedAt >= FETCH_TIMEOUT


(***************************************************************************)
(* createSession and the driver events.                                     *)
(***************************************************************************)
\* a plausible slip: the registry is not consulted before constructing
Has_Never(sessionId) == FALSE

\* this.sessions.has(sessionId)
Has(sessionId) == sessions[sessionId] # 0

\* createSession up to `await client.initialize()`; constructs is the
\* outcome of `new Client(...)`: TRUE if it returns, FALSE if it throws
CreateSession(sessionId, constructs) ==
    /\ IF Has(sessionId)
       THEN /\ last' = [op |-> "createSession", sessionId |-> sessionId,
                        returned |-> sessions[sessionId], outcome |-> "existing"]
            /\ UNCHANGED << sessions, inst, nextInst >>
       ELSE /\ nextInst < MaxInst
            /\ nextInst' = nextInst + 1
            /\ sessions' = [sessions EXCEPT ![sessionId] = nextInst']
            /\ inst' = [inst EXCEPT ![nextInst'] =
                         [sessionId |-> sessionId,
                          status |-> IF constructs THEN "connecting" ELSE "disconnected",
                          qrCode |-> None,
                          client |-> constructs,
                          initialize |-> IF constructs THEN "pending" ELSE None,
                          page |-> IF constructs THEN "open" ELSE None,
                          removed |-> FALSE,
                          initTimeout |-> IF constructs THEN now + INIT_TIMEOUT
                                          ELSE NoTime,
                          qrPending |-> 0]]
            /\ last' = [op |-> "createSession", sessionId |-> sessionId,
                        returned |-> IF constructs THEN 0 ELSE nextInst',
                        outcome |-> IF constructs THEN "initializing"
                                    ELSE "constructFailed"]
    /\ UNCHANGED << now, chatCache, lastFetchTime, lastSeenMessages, calls,
                    backoffs, refreshWin, fetches, abandoned, libVars >>

\* `await client.initialize()` returns, or throws into the catch block
InitializeSettles(i, ok) ==
    /\ inst[i].initialize = "pending"
    /\ inst' = [inst EXCEPT ![i].initialize = IF ok THEN "returned" ELSE "failed",
                            ![i].status = IF ok THEN @ ELSE "disconnected"]
    /\ last' = [op |-> "createSession", sessionId |-> inst[i].sessionId,
                returned |-> i,
                outcome |-> IF ok THEN "initialized" ELSE "initializeFailed"]
    /\ UNCHANGED << now, sessions, nextInst, chatCache, lastFetchTime,
                    lastSeenMessages, calls, backoffs, refreshWin,
                    fetches, abandoned, libVars >>

\* client.on('ready'), client.on('authenticated'), client.on('auth_failure')
DriverEvent(i, ev) ==
    /\ inst[i].client
    /\ ev \in {"ready", "authenticated", "auth_failure"}
    /\ inst' = [inst EXCEPT
                 ![i].status = CASE ev = "ready" -> "ready"
                                 [] ev = "authenticated" -> "authenticating"
                                 [] ev = "auth_failure" -> "disconnected",
                 ![i].qrCode = None]
    /\ last' = [op |-> "event", sessionId |-> inst[i].sessionId, event |-> ev,
                inst |-> i]
    /\ UNCHANGED << now, sessions, nextInst, chatCache, lastFetchTime,
                    lastSeenMessages, calls, backoffs, refreshWin,
                    fetches, abandoned, libVars >>

\* client.on('qr') up to `await QRCode.toDataURL(qr, ...)`
DriverQr(i) ==
    /\ inst[i].client
    /\ inst[i].qrPending < MaxQr
    /\ inst' = [inst EXCEPT ![i].qrPending = @ + 1]
    /\ last' = [op |-> "event", sessionId |-> inst[i].sessionId, event |-> "qr",
                inst |-> i]
    /\ UNCHANGED << now, sessions, nextInst, chatCache, lastFetchTime,
                    lastSeenMessages, calls, backoffs, refreshWin,
                    fetches, abandoned, libVars >>

\* the rest of the qr handler: the encoding resolved (ok) or rejected; the
\* catch block stores null, which reads as no payload
QrEncoded(i, ok) ==
    /\ inst[i].qrPending > 0
    /\ inst' = [inst EXCEPT ![i].qrPending = @ - 1,
                            ![i].qrCode = IF ok THEN "qr" ELSE None,
                            ![i].status = "qr"]
    /\ last' = [op |-> "qrEncoded", sessionId |-> inst[i].sessionId,
                inst |-> i, before |-> inst[i].status, ok |-> ok]
    /\ UNCHANGED << now, sessions, nextInst, chatCache, lastFetchTime,
                    lastSeenMessages, calls, backoffs, refreshWin,
                    fetches, abandoned, libVars >>

\* the guard timer of a session object is armed and its time has come
InitTimeoutDue(i) ==
    inst[i].initTimeout # NoTime /\ now >= inst[i].initTimeout

\* a plausible slip: the guard timer does not look at the status
InitTimeoutStatus_Always(status) == "qr"

\* if (session.status === 'connecting') session.status = 'qr'
InitTimeoutStatus(status) == IF status = "connecting" THEN "qr" ELSE status

\* the callback of initTimeout
InitTimeout(i) ==
    /\ InitTimeoutDue(i)
    /\ inst' = [inst EXCEPT ![i].initTimeout = NoTime,
                            ![i].status = InitTimeoutStatus(@)]
    /\ last' = [op |-> "initTimeout", sessionId |-> inst[i].sessionId,
                inst |-> i, before |-> inst[i].status]
    /\ UNCHANGED << now, sessions, nextInst, chatCache, lastFetchTime,
                    lastSeenMessages, calls, backoffs, refreshWin,
                    fetches, abandoned, libVars >>

\* checkStatusChange, which runs every second: once the status is not
\* 'connecting' the guard timer is cleared
CheckStatusChange(ins) ==
    [i \in Insts |->
        IF ins[i].initTimeout # NoTime /\ ins[i].status # "connecting"
        THEN [ins[i] EXCEPT !.initTimeout = NoTime]
        ELSE ins[i]]

\* getSession: what a read of the session reports, qrCode included
GetSession(sessionId) ==
    IF sessions[sessionId] = 0
    THEN [found |-> FALSE, status |-> None, qrCode |-> None]
    ELSE [found |-> TRUE,
          status |-> inst[sessions[sessionId]].status,
          qrCode |-> inst[sessions[sessionId]].qrCode]

\* the qrCode field of the answer of the qr and status endpoints
EndpointQr(sessionId) ==
    LET session == GetSession(sessionId)
    IN IF session.found /\ session.status = "qr" /\ session.qrCode # None
       THEN session.qrCode
       ELSE None

\* client.on('disconnected')
DriverDisconnected(i) ==
    /\ inst[i].client
    /\ sessions' = [sessions EXCEPT ![inst[i].sessionId] = 0]
    /\ inst' = SessionsDelete(inst, inst[i].sessionId)
    /\ last' = [op |-> "event", sessionId |-> inst[i].sessionId,
                event |-> "disconnected", inst |-> i]
    /\ UNCHANGED << now, nextInst, chatCache, lastFetchTime, lastSeenMessages,
                    calls, backoffs, refreshWin, fetches, abandoned, libVars >>

\* the browser page of the driver goes away (pupPage.isClosed())
PageCloses(i) ==
    /\ inst[i].client
    /\ inst[i].page = "open"
    /\ inst' = Destroy(inst, i)
    /\ UNCHANGED << now, sessions, nextInst, chatCache, lastFetchTime,
                    lastSeenMessages, calls, last, backoffs,
                    refreshWin, fetches, abandoned, libVars >>

(***************************************************************************)
(* Teardown and invalidation.                                               *)
(***************************************************************************)
\* the three deletes that end disconnectSession and forceCleanupSession
Cleanup(ins, sessionId) ==
    /\ sessions' = [sessions EXCEPT ![sessionId] = 0]
    /\ inst' = SessionsDelete(ins, sessionId)
    /\ chatCache' = [chatCache EXCEPT ![sessionId] = NoEntry]
    /\ lastFetchTime' = [lastFetchTime EXCEPT ![sessionId] = NoTime]

\* the driver of the registered session destroyed, if there is one
DestroyRegistered(sessionId) ==
    IF sessions[sessionId] # 0 /\ inst[sessions[sessionId]].client
    THEN Destroy(inst, sessions[sessionId])
    ELSE inst

\* a plausible slip: forceCleanupSession awaits destroy() as disconnectSession does
ForceCleanup_Awaits(sessionId, destroys) ==
    /\ IF sessions[sessionId] # 0 /\ inst[sessions[sessionId]].client /\ destroys
       THEN /\ CanSuspend
            /\ calls' = Suspend([op |-> "forceCleanupSession", sessionId |-> sessionId])
            /\ inst' = Destroy(inst, sessions[sessionId])
            /\ UNCHANGED << sessions, chatCache, lastFetchTime >>
       ELSE /\ Cleanup(inst, sessionId)
            /\ UNCHANGED calls
    /\ last' = [op |-> "forceCleanupSession", sessionId |-> sessionId]
    /\ UNCHANGED << now, nextInst, lastSeenMessages, backoffs,
                    refreshWin, fetches, abandoned, libVars >>

\* forceCleanupSession: destroy() is called and not awaited; destroys tells
\* whether the call returns its promise (TRUE: the browser is being closed)
\* or throws (FALSE: the error is caught and logged)
ForceCleanup(sessionId, destroys) ==
    /\ Cleanup(IF destroys THEN DestroyRegistered(sessionId) ELSE inst, sessionId)
    /\ last' = [op |-> "forceCleanupSession", sessionId |-> sessionId]
    /\ UNCHANGED << now, nextInst, lastSeenMessages, calls, backoffs,
                    refreshWin, fetches, abandoned, libVars >>

\* forceCleanupSession when destroy() does not throw
ForceCleanupSession(sessionId) == ForceCleanup(sessionId, TRUE)

\* disconnectSession up to `await session.client.destroy()`
DisconnectSession(sessionId) ==
    /\ IF sessions[sessionId] # 0 /\ inst[sessions[sessionId]].client
       THEN /\ CanSuspend
            /\ calls' = Suspend([op |-> "disconnectSession", sessionId |-> sessionId])
            /\ inst' = Destroy(inst, sessions[sessionId])
            /\ last' = [op |-> "disconnectSession", sessionId |-> sessionId,
                        outcome |-> "destroying"]
            /\ UNCHANGED << sessions, chatCache, lastFetchTime >>
       ELSE /\ Cleanup(inst, sessionId)
            /\ last' = [op |-> "disconnectSession", sessionId |-> sessionId,
                        outcome |-> "done"]
            /\ UNCHANGED calls
    /\ UNCHANGED << now, nextInst, lastSeenMessages, backoffs,
                    refreshWin, fetches, abandoned, libVars >>

\* destroy() resolved or rejected (the rejection is caught and logged)
DisconnectSettles(c) ==
    /\ c.op = "disconnectSession"
    /\ calls' = Resume(c)
    /\ Cleanup(inst, c.sessionId)
    /\ last' = [op |-> "disconnectSession", sessionId |-> c.sessionId,
                outcome |-> "done"]
    /\ UNCHANGED << now, nextInst, lastSeenMessages, backoffs,
                    refreshWin, fetches, abandoned, libVars >>

\* refreshChatCache
RefreshChatCache(sessionId) ==
    /\ chatCache' = [chatCache EXCEPT ![sessionId] = NoEntry]
    /\ last' = [op |-> "refreshChatCache", sessionId |-> sessionId]
    /\ refreshWin' = [refreshWin EXCEPT ![sessionId] =
                        IF Throttled(sessionId, now)
                        THEN [open |-> TRUE, started |-> 0]
                        ELSE NoWin]
    /\ UNCHANGED << now, sessions, inst, nextInst, lastFetchTime,
                    lastSeenMessages, calls, backoffs, fetches, abandoned, libVars >>


(***************************************************************************)
(* getChats (listChats).                                                    *)
(***************************************************************************)
\* what a getChats call that returns a page reports
Served(sessionId, archived, offset, limit, outcome, allChats, cached) ==
    [op |-> "getChats", sessionId |-> sessionId, archived |-> archived,
     offset |-> offset, limit |-> limit, outcome |-> outcome,
     cached |-> cached, snapshot |-> allChats,
     result |-> ListResult(allChats, offset, limit,
                           SeenInit(sessionId)[sessionId].seen)]

\* history: one more fetch started after a refreshChatCache, all inside the
\* throttle interval
CountFetch(sessionId) ==
    IF refreshWin[sessionId].open /\ Throttled(sessionId, now)
    THEN [refreshWin[sessionId] EXCEPT !.started = @ + 1]
    ELSE NoWin

\* cacheAge < CACHE_DURATION, cacheAge being Infinity without an entry
Fresh(cached) == cached # NoEntry /\ now - cached.timestamp < CACHE_DURATION

\* a plausible slip: a stale entry is never used
UseCache_FreshOnly(cached, timeSinceLastFetch) ==
    cached # NoEntry /\ Fresh(cached)

\* a plausible slip: the cache is used only when both conditions hold
UseCache_Both(cached, timeSinceLastFetch) ==
    /\ cached # NoEntry
    /\ Fresh(cached) /\ timeSinceLastFetch < MIN_FETCH_INTERVAL

\* cached && (cacheAge < CACHE_DURATION || timeSinceLastFetch < MIN_FETCH_INTERVAL)
UseCache(cached, timeSinceLastFetch) ==
    /\ cached # NoEntry
    /\ Fresh(cached) \/ timeSinceLastFetch < MIN_FETCH_INTERVAL

\* a plausible slip: the connection is taken as usable without looking
Usable_Always(i) == TRUE

\* session.client.pupPage && !session.client.pupPage.isClosed()
Usable(i) == inst[i].page = "open"

\* getChats from its entry to its return, or to `await Promise.race(...)`
GetChats(sessionId, archived, offset, limit) ==
    LET cacheKey == CacheKey(sessionId, archived)
        cached == chatCache[cacheKey]
        fresh == Fresh(cached)
        timeSinceLastFetch == now - LastFetch(sessionId)
        i == sessions[sessionId]
        call == [op |-> "getChats", sessionId |-> sessionId, archived |-> archived,
                 offset |-> offset, limit |-> limit,
                 cached |-> cached, fresh |-> fresh,
                 timeSinceLastFetch |-> timeSinceLastFetch]
    IN
    /\ IF NotReady(sessionId)
       THEN /\ last' = call @@ [outcome |-> "notReady"]
            /\ UNCHANGED << sessions, inst, chatCache, lastFetchTime,
                            lastSeenMessages, calls, refreshWin, fetches >>
       ELSE IF UseCache(cached, timeSinceLastFetch)
       THEN /\ lastSeenMessages' = SeenInit(sessionId)
            /\ last' = Served(sessionId, archived, offset, limit, "cache",
                              cached.chats, cached)
                       @@ [fresh |-> fresh, timeSinceLastFetch |-> timeSinceLastFetch]
            /\ UNCHANGED << sessions, inst, chatCache, lastFetchTime, calls,
                            refreshWin, fetches >>
       ELSE IF ~Usable(i)
       THEN /\ Cleanup(DestroyRegistered(sessionId), sessionId)
            /\ last' = call @@ [outcome |-> "disconnected"]
            /\ UNCHANGED << lastSeenMessages, calls, refreshWin, fetches >>
       ELSE /\ CanSuspend
            /\ fetches < MaxFetches
            /\ fetches' = fetches + 1
            /\ lastFetchTime' = [lastFetchTime EXCEPT ![sessionId] = now]
            /\ calls' = Suspend([op |-> "getChats", sessionId |-> sessionId,
                                 archived |-> archived, offset |-> offset,
                                 limit |-> limit, cached |-> cached,
                                 startedAt |-> now])
            /\ refreshWin' = [refreshWin EXCEPT ![sessionId] = CountFetch(sessionId)]
            /\ last' = call @@ [outcome |-> "fetch"]
            /\ UNCHANGED << sessions, inst, chatCache, lastSeenMessages >>
    /\ UNCHANGED << now, nextInst, backoffs, abandoned, libVars >>

\* a plausible slip: the successful fetch leaves the throttle as it is
ResetThrottle_Keep(sessionId) == lastFetchTime

\* "Reset rate limiting on successful fetch"
ResetThrottle(sessionId) == [lastFetchTime EXCEPT ![sessionId] = now]

\* client.getChats() resolves with upstream before the timer fires: the
\* rest of getChats
FetchResolves(c, upstream) ==
    LET allChats == SortDesc(FilterArchived(upstream, c.archived))
    IN
    /\ c.op = "getChats"
    /\ calls' = Resume(c)
    /\ lastFetchTime' = ResetThrottle(c.sessionId)
    /\ chatCache' = [chatCache EXCEPT ![CacheKey(c.sessionId, c.archived)] =
                       [chats |-> allChats, timestamp |-> now]]
    /\ lastSeenMessages' = SeenInit(c.sessionId)
    /\ backoffs' = [backoffs EXCEPT ![c.sessionId] = << >>]
    /\ last' = Served(c.sessionId, c.archived, c.offset, c.limit, "fetched",
                      allChats, c.cached)
               @@ [upstream |-> upstream, timeouts |-> Len(backoffs[c.sessionId])]
    /\ UNCHANGED << now, sessions, inst, nextInst, refreshWin,
                    fetches, abandoned, libVars >>

\* the last three elements of a sequence
Recent(seq) == IF Len(seq) > 3 THEN SubSeq(seq, Len(seq) - 2, Len(seq)) ELSE seq

\* a plausible slip: the fallback serves an empty list
Fallback_Empty(cached) == << >>

\* allChats = cached.chats in the catch block
Fallback(cached) == cached.chats

\* the race is lost: the timer fires (cause = "timeout") or client.getChats()
\* rejects; both land in `catch (timeoutError)`.  late tells whether the
\* call the timer beat will still settle (TRUE) or never does (FALSE)
FetchLost(c, cause, late) ==
    LET currentInterval == MIN_FETCH_INTERVAL
        backoffInterval == Min(currentInterval * 2, MAX_BACKOFF)
    IN
    /\ c.op = "getChats"
    /\ cause = "timeout" => TimerDue(c)
    /\ late => cause = "timeout"
    /\ calls' = Resume(c)
    /\ lastFetchTime' = [lastFetchTime EXCEPT ![c.sessionId] =
                           now + backoffInterval - MIN_FETCH_INTERVAL]
    /\ backoffs' = [backoffs EXCEPT ![c.sessionId] =
                      IF cause = "timeout"
                      THEN Recent(Append(@, backoffInterval))
                      ELSE << >>]
    /\ IF c.cached # NoEntry
       THEN /\ lastSeenMessages' = SeenInit(c.sessionId)
            /\ last' = Served(c.sessionId, c.archived, c.offset, c.limit,
                              "stale", Fallback(c.cached), c.cached)
                       @@ [cause |-> cause,
                           entry |-> chatCache[CacheKey(c.sessionId, c.archived)],
                           wasReady |-> ~NotReady(c.sessionId)]
       ELSE /\ last' = [op |-> "getChats", sessionId |-> c.sessionId,
                        archived |-> c.archived, outcome |-> "rateLimited",
                        cause |-> cause, cached |-> c.cached,
                        entry |-> chatCache[CacheKey(c.sessionId, c.archived)],
                        wasReady |-> ~NotReady(c.sessionId)]
            /\ UNCHANGED lastSeenMessages
    /\ abandoned' = IF late
                    THEN abandoned \cup {[sessionId |-> c.sessionId,
                                          archived |-> c.archived,
                                          settled |-> FALSE]}
                    ELSE abandoned
    /\ UNCHANGED << now, sessions, inst, nextInst, chatCache, refreshWin,
                    fetches, libVars >>

\* the race is lost and what the upstream call does later is not followed
FetchFails(c, cause) == FetchLost(c, cause, FALSE)

\* a plausible slip: the late result of an abandoned call is stored
LateCompletion_Stores(u, upstream) ==
    [chatCache EXCEPT ![CacheKey(u.sessionId, u.archived)] =
        [chats |-> SortDesc(FilterArchived(upstream, u.archived)),
         timestamp |-> now]]

\* what becomes of the chat cache when client.getChats() settles after the
\* race was decided: the filtered list goes to the settled race and is dropped
LateCompletion(u, upstream) == chatCache

\* client.getChats() of an abandoned call resolves with upstream, or rejects
\* (upstream = << >>); nothing of the service runs
AbandonedSettles(u, upstream) ==
    /\ u \in abandoned
    /\ ~u.settled
    /\ abandoned' = (abandoned \ {u}) \cup {[u EXCEPT !.settled = TRUE]}
    /\ chatCache' = LateCompletion(u, upstream)
    /\ UNCHANGED << now, sessions, inst, nextInst, lastFetchTime,
                    lastSeenMessages, calls, last, backoffs, refreshWin,
                    fetches, libVars >>



(***************************************************************************)
(* sendMessage and markChatAsRead.                                          *)
(***************************************************************************)
\* the suffix of the address of an individual, and of a group
IndividualSuffix == << "@", "c", ".", "u", "s" >>
GroupSuffix == << "@", "g", ".", "u", "s" >>

\* str.includes(pattern)
RECURSIVE Includes(_, _)
Includes(chars, pattern) ==
    IF Len(chars) < Len(pattern) THEN FALSE
    ELSE IF SubSeq(chars, 1, Len(pattern)) = pattern THEN TRUE
    ELSE Includes(Tail(chars), pattern)

\* to.includes('@c.us') ? to : `${to}@c.us`
FormattedDestination(to) ==
    IF Includes(to, IndividualSuffix) THEN to ELSE to \o IndividualSuffix

\* the destinations clients send to: a bare number, the address of an
\* individual, the address of a group
BareNumber == << "4", "9", "1", "5" >>
Destinations ==
    { BareNumber, BareNumber \o IndividualSuffix,
      << "1", "2", "-", "7" >> \o GroupSuffix }

\* sendMessage up to `await session.client.sendMessage(...)`
SendMessageTo(sessionId, to) ==
    /\ IF NotReady(sessionId)
       THEN /\ last' = [op |-> "sendMessage", sessionId |-> sessionId,
                        outcome |-> "notReady"]
            /\ UNCHANGED calls
       ELSE /\ CanSuspend
            /\ calls' = Suspend([op |-> "sendMessage", sessionId |-> sessionId,
                                 formattedNumber |-> FormattedDestination(to)])
            /\ last' = [op |-> "sendMessage", sessionId |-> sessionId,
                        outcome |-> "sending", to |-> to,
                        formattedNumber |-> FormattedDestination(to)]
    /\ UNCHANGED << now, sessions, inst, nextInst, chatCache, lastFetchTime,
                    lastSeenMessages, backoffs, refreshWin, fetches,
                    abandoned, libVars >>

\* sendMessage to a bare number
SendMessage(sessionId) == SendMessageTo(sessionId, BareNumber)

\* the driver accepted the message, or rejected it
SendSettles(c, ok) ==
    /\ c.op = "sendMessage"
    /\ calls' = Resume(c)
    /\ chatCache' = IF ok THEN [chatCache EXCEPT ![c.sessionId] = NoEntry]
                    ELSE chatCache
    /\ last' = [op |-> "sendMessage", sessionId |-> c.sessionId,
                outcome |-> IF ok THEN "sent" ELSE "error"]
    /\ UNCHANGED << now, sessions, inst, nextInst, lastFetchTime,
                    lastSeenMessages, backoffs, refreshWin, fetches,
                    abandoned, libVars >>

\* markChatAsRead up to `await session.client.getChatById(chatId)`
MarkChatAsRead(sessionId, chatId) ==
    /\ IF NotReady(sessionId)
       THEN /\ last' = [op |-> "markChatAsRead", sessionId |-> sessionId,
                        chatId |-> chatId, outcome |-> "notReady"]
            /\ UNCHANGED calls
       ELSE /\ CanSuspend
            /\ calls' = Suspend([op |-> "markChatAsRead", sessionId |-> sessionId,
                                 chatId |-> chatId, stage |-> "getChatById"])
            /\ last' = [op |-> "markChatAsRead", sessionId |-> sessionId,
                        chatId |-> chatId, outcome |-> "lookup"]
    /\ UNCHANGED << now, sessions, inst, nextInst, chatCache, lastFetchTime,
                    lastSeenMessages, backoffs, refreshWin, fetches,
                    abandoned, libVars >>

\* getChatById settles: on success markChatAsRead goes on to `await chat.sendSeen()`
MarkLookupSettles(c, ok) ==
    /\ c.op = "markChatAsRead"
    /\ c.stage = "getChatById"
    /\ calls' = IF ok THEN Suspend([c EXCEPT !.stage = "sendSeen"]) (-) SetToBag({c})
                ELSE Resume(c)
    /\ last' = [op |-> "markChatAsRead", sessionId |-> c.sessionId,
                chatId |-> c.chatId, outcome |-> IF ok THEN "acking" ELSE "error"]
    /\ UNCHANGED << now, sessions, inst, nextInst, chatCache, lastFetchTime,
                    lastSeenMessages, backoffs, refreshWin, fetches,
                    abandoned, libVars >>

\* a plausible slip: the entry is written whether sendSeen() resolved or not
MarkSeenSettles_Always(c, ok) ==
    /\ c.op = "markChatAsRead"
    /\ c.stage = "sendSeen"
    /\ calls' = Resume(c)
    /\ lastSeenMessages' =
         [SeenInit(c.sessionId) EXCEPT ![c.sessionId].seen[c.chatId] = now]
    /\ last' = [op |-> "markChatAsRead", sessionId |-> c.sessionId,
                chatId |-> c.chatId,
                outcome |-> IF ok THEN "recorded" ELSE "error"]
    /\ UNCHANGED << now, sessions, inst, nextInst, chatCache, lastFetchTime,
                    backoffs, refreshWin, fetches, abandoned, libVars >>

\* sendSeen settles: on success the rest of markChatAsRead
MarkSeenSettles(c, ok) ==
    /\ c.op = "markChatAsRead"
    /\ c.stage = "sendSeen"
    /\ calls' = Resume(c)
    /\ lastSeenMessages' =
         IF ok
         THEN [SeenInit(c.sessionId) EXCEPT ![c.sessionId].seen[c.chatId] = now]
         ELSE lastSeenMessages
    /\ last' = [op |-> "markChatAsRead", sessionId |-> c.sessionId,
                chatId |-> c.chatId,
                outcome |-> IF ok THEN "recorded" ELSE "error"]
    /\ UNCHANGED << now, sessions, inst, nextInst, chatCache, lastFetchTime,
                    backoffs, refreshWin, fetches, abandoned, libVars >>

(***************************************************************************)
(* getMessages and getProfilePicture.                                       *)
(***************************************************************************)
Digit == {"0", "1", "2", "3", "4", "5", "6", "7", "8", "9"}

\* the string of a sequence of characters
RECURSIVE Join(_)
Join(chars) == IF chars = << >> THEN "" ELSE Head(chars) \o Join(Tail(chars))

\* str.replace(pattern, ''): the first occurrence of pattern is removed
RECURSIVE RemoveFirst(_, _)
RemoveFirst(chars, pattern) ==
    IF Len(chars) < Len(pattern) THEN chars
    ELSE IF SubSeq(chars, 1, Len(pattern)) = pattern
         THEN SubSeq(chars, Len(pattern) + 1, Len(chars))
         ELSE << Head(chars) >> \o RemoveFirst(Tail(chars), pattern)

\* formatPhoneNumber: the digits of rawNumber behind a '+'
FormatPhoneNumber(rawNumber) ==
    LET digits == SelectSeq(rawNumber, LAMBDA ch : ch \in Digit)
    IN IF digits # << >> /\ Head(digits) = "+"
       THEN Join(digits)
       ELSE "+" \o Join(digits)

\* this.formatPhoneNumber(message.author.replace('@c.us', ''))
FormattedNumber(author) ==
    FormatPhoneNumber(RemoveFirst(author, << "@", "c", ".", "u", "s" >>))

\* a contact as getContactById resolves it; "" is an absent name
Contact(name, pushname) == [name |-> name, pushname |-> pushname]
NoContact == Contact("", "")
\* what getContactById may resolve to: saved with and without a push name,
\* not saved with a push name, not saved without one
ContactResults ==
    { Contact("Ann", "annie"), Contact("Cy", ""), Contact("", "bob"), NoContact }

\* authorName in the try block of the mapper
AuthorName(contact, author) ==
    LET isInContacts == contact.name # "" \/ contact.pushname # ""
    IN IF isInContacts
       THEN IF contact.name # "" THEN contact.name ELSE contact.pushname
       ELSE LET pushname == IF contact.pushname # "" THEN contact.pushname
                            ELSE "Unknown"
            IN "~ " \o pushname \o " " \o FormattedNumber(author)

\* authorName in the catch block of the mapper
AuthorNameOnError(author) == FormattedNumber(author)

\* an upstream message: author is the sender's id in a group chat (<< >>:
\* undefined), ts in seconds, type one of MessageTypes, body "" when the
\* message has no text
Message(id, fromMe, author, ts, type, body, hasMedia) ==
    [id |-> id, fromMe |-> fromMe, author |-> author, ts |-> ts,
     type |-> type, body |-> body, hasMedia |-> hasMedia]

\* the types whose media getMessages downloads
MediaTypes == {"sticker", "image", "video"}

\* the text shown for a message of a type that has no text of its own (the
\* pictograph that leads it is left out)
Placeholder(type) ==
    CASE type = "sticker" -> "Sticker"
      [] type = "image" -> "Image"
      [] type = "video" -> "Video"
      [] type \in {"audio", "ptt"} -> "Audio"
      [] type = "document" -> "Document"
      [] type = "location" -> "Location"
      [] type \in {"vcard", "multi_vcard"} -> "Contact"
      [] OTHER -> ""

\* a plausible slip: the sticker whose download failed is shown without text
DisplayBody_NoPlaceholder(message, mediaData) ==
    IF message.type = "sticker" THEN ""
    ELSE IF message.body # "" THEN message.body
    ELSE Placeholder(message.type)

\* displayBody of the mapper
DisplayBody(message, mediaData) ==
    IF message.type = "sticker"
    THEN IF mediaData THEN "" ELSE Placeholder("sticker")
    ELSE IF message.body # "" THEN message.body
    ELSE Placeholder(message.type)

PeerA == << "4", "9", "1", "5", "@", "c", ".", "u", "s" >>

\* what getChatById may resolve to, with the messages fetchMessages gives
GroupChat ==
    [isGroup |-> TRUE,
     messages |-> << Message("m2", TRUE, << >>, 310, "chat", "hi", FALSE),
                     Message("m1", FALSE, PeerA, 300, "sticker", "", TRUE) >>]
DirectChat ==
    [isGroup |-> FALSE,
     messages |-> << Message("d2", TRUE, << >>, 330, "chat", "ok", FALSE),
                     Message("d1", FALSE, << >>, 325, "image", "look", TRUE) >>]
\* a chat whose messages the driver gives in no order, two of one second
ShuffledChat ==
    [isGroup |-> FALSE,
     messages |-> << Message("s2", FALSE, << >>, 340, "chat", "b", FALSE),
                     Message("s3", TRUE, << >>, 360, "chat", "c", FALSE),
                     Message("s1", FALSE, << >>, 340, "location", "", FALSE) >>]
MessageChats == { GroupChat, DirectChat, ShuffledChat }
NoChat == [isGroup |-> FALSE, messages |-> << >>]

\* where the mapper of a message stands after the contact was resolved
AfterContact(message, includeMedia) ==
    IF includeMedia /\ message.type \in MediaTypes /\ message.hasMedia
    THEN "media"
    ELSE "done"

\* the mapper of one message up to its first await
InitRow(chat, message, includeMedia) ==
    [msg |-> message,
     stage |-> IF chat.isGroup /\ ~message.fromMe /\ message.author # << >>
               THEN "contact"
               ELSE AfterContact(message, includeMedia),
     authorName |-> None,
     looked |-> None,
     contact |-> NoContact,
     download |-> None,
     mediaData |-> FALSE]

\* the value the mapper returns
FormatMessage(row) ==
    [id |-> row.msg.id,
     timestamp |-> row.msg.ts * 1000,
     fromMe |-> row.msg.fromMe,
     body |-> DisplayBody(row.msg, row.mediaData),
     authorName |-> row.authorName,
     mediaData |-> row.mediaData]

\* one step of the stable sort by ascending timestamp
RECURSIVE InsertAsc(_, _)
InsertAsc(m, sorted) ==
    IF sorted = << >> THEN << m >>
    ELSE IF Head(sorted).timestamp <= m.timestamp
         THEN << Head(sorted) >> \o InsertAsc(m, Tail(sorted))
         ELSE << m >> \o sorted

\* a plausible slip: the list, taken to be newest first, is only reversed
SortAsc_Reverse(messages) ==
    [k \in 1..Len(messages) |-> messages[Len(messages) + 1 - k]]

\* formattedMessages.sort((a, b) => a.timestamp - b.timestamp)
RECURSIVE SortAsc(_)
SortAsc(messages) ==
    IF messages = << >> THEN << >>
    ELSE LET n == Len(messages)
         IN InsertAsc(messages[n], SortAsc(SubSeq(messages, 1, n - 1)))

\* the timer of a suspended getMessages is due
MsgTimerDue(c) ==
    /\ c.op = "getMessages"
    /\ c.stage = "fetchMessages"
    /\ now - c.startedAt >= MSG_FETCH_TIMEOUT

\* getMessages from its entry to `await session.client.getChatById(chatId)`
GetMessages(sessionId, chatId, includeMedia) ==
    LET call == [op |-> "getMessages", sessionId |-> sessionId, chatId |-> chatId]
    IN
    /\ IF NotReady(sessionId)
       THEN /\ last' = call @@ [outcome |-> "notReady"]
            /\ UNCHANGED << sessions, inst, chatCache, lastFetchTime, calls >>
       ELSE IF ~Usable(sessions[sessionId])
       THEN /\ Cleanup(DestroyRegistered(sessionId), sessionId)
            /\ last' = call @@ [outcome |-> "disconnected"]
            /\ UNCHANGED calls
       ELSE /\ CanSuspend
            /\ calls' = Suspend(call @@ [includeMedia |-> includeMedia,
                                         stage |-> "getChatById",
                                         startedAt |-> NoTime,
                                         chat |-> NoChat, rows |-> << >>])
            /\ last' = call @@ [outcome |-> "lookup"]
            /\ UNCHANGED << sessions, inst, chatCache, lastFetchTime >>
    /\ UNCHANGED << now, nextInst, lastSeenMessages, backoffs, refreshWin,
                    fetches, abandoned, libVars >>

\* getChatById resolves with chat: fetchMessages is called and raced
\* against the timer
MsgLookupSettles(c, chat) ==
    /\ c.op = "getMessages"
    /\ c.stage = "getChatById"
    /\ calls' = Suspend([c EXCEPT !.stage = "fetchMessages", !.startedAt = now,
                                  !.chat = chat]) (-) SetToBag({c})
    /\ last' = [op |-> "getMessages", sessionId |-> c.sessionId,
                chatId |-> c.chatId, outcome |-> "fetching"]
    /\ UNCHANGED << now, sessions, inst, nextInst, chatCache, lastFetchTime,
                    lastSeenMessages, backoffs, refreshWin, fetches,
                    abandoned, libVars >>

\* a plausible slip: the timeout is taken for a closed session
SessionClosed_Timeout(cause) == cause \in {"Session closed", "timeout"}

\* error.message.includes('Session closed')
SessionClosed(cause) == cause = "Session closed"

\* getChatById or fetchMessages rejects, or the timer wins the race
\* (cause = "timeout"): the catch block of getMessages
MsgFails(c, cause) ==
    /\ c.op = "getMessages"
    /\ c.stage \in {"getChatById", "fetchMessages"}
    /\ cause = "timeout" => MsgTimerDue(c)
    /\ calls' = Resume(c)
    /\ IF SessionClosed(cause)
       THEN /\ Cleanup(DestroyRegistered(c.sessionId), c.sessionId)
            /\ last' = [op |-> "getMessages", sessionId |-> c.sessionId,
                        chatId |-> c.chatId, outcome |-> "disconnected",
                        cause |-> cause]
       ELSE /\ last' = [op |-> "getMessages", sessionId |-> c.sessionId,
                        chatId |-> c.chatId, outcome |-> "error",
                        cause |-> cause]
            /\ UNCHANGED << sessions, inst, chatCache, lastFetchTime >>
    /\ UNCHANGED << now, nextInst, lastSeenMessages, backoffs, refreshWin,
                    fetches, abandoned, libVars >>

\* the messages of a suspended getMessages
RowsOf(c) == IF c.op = "getMessages" THEN 1..Len(c.rows) ELSE {}

\* every mapper returned
AllDone(rows) == \A k \in 1..Len(rows) : rows[k].stage = "done"

\* the mappers went on to rows: getMessages returns when all of them
\* returned, and stays at `await Promise.all(...)` otherwise
MsgProgress(c, rows) ==
    /\ IF AllDone(rows)
       THEN /\ calls' = Resume(c)
            /\ last' = [op |-> "getMessages", sessionId |-> c.sessionId,
                        chatId |-> c.chatId, outcome |-> "messages",
                        isGroup |-> c.chat.isGroup,
                        includeMedia |-> c.includeMedia, rows |-> rows,
                        result |-> SortAsc([k \in 1..Len(rows) |->
                                               FormatMessage(rows[k])])]
       ELSE /\ calls' = Suspend([c EXCEPT !.stage = "format", !.rows = rows])
                           (-) SetToBag({c})
            /\ last' = [op |-> "getMessages", sessionId |-> c.sessionId,
                        chatId |-> c.chatId, outcome |-> "formatting"]
    /\ UNCHANGED << now, sessions, inst, nextInst, chatCache, lastFetchTime,
                    lastSeenMessages, backoffs, refreshWin, fetches,
                    abandoned, libVars >>

\* fetchMessages resolves before the timer fires: every mapper runs up to
\* its first await
MsgFetchResolves(c) ==
    /\ c.op = "getMessages"
    /\ c.stage = "fetchMessages"
    /\ MsgProgress(c, [k \in 1..Len(c.chat.messages) |->
                          InitRow(c.chat, c.chat.messages[k], c.includeMedia)])

\* getContactById of the k-th message resolves with contact (ok) or rejects
ContactSettles(c, k, ok, contact) ==
    /\ c.op = "getMessages"
    /\ c.stage = "format"
    /\ k \in 1..Len(c.rows)
    /\ c.rows[k].stage = "contact"
    /\ ok \/ contact = NoContact
    /\ MsgProgress(c, [c.rows EXCEPT
                         ![k].stage = AfterContact(c.rows[k].msg, c.includeMedia),
                         ![k].authorName =
                             IF ok THEN AuthorName(contact, c.rows[k].msg.author)
                             ELSE AuthorNameOnError(c.rows[k].msg.author),
                         ![k].looked = IF ok THEN "ok" ELSE "failed",
                         ![k].contact = contact])

\* downloadMedia of the k-th message resolves with media data (ok), or
\* resolves with nothing or rejects
MediaSettles(c, k, ok) ==
    /\ c.op = "getMessages"
    /\ c.stage = "format"
    /\ k \in 1..Len(c.rows)
    /\ c.rows[k].stage = "media"
    /\ MsgProgress(c, [c.rows EXCEPT ![k].stage = "done",
                                     ![k].download = IF ok THEN "ok" ELSE "failed",
                                     ![k].mediaData = ok])

\* getProfilePicture up to `await session.client.getProfilePicUrl(chatId)`
GetProfilePicture(sessionId, chatId) ==
    /\ IF NotReady(sessionId)
       THEN /\ last' = [op |-> "getProfilePicture", sessionId |-> sessionId,
                        chatId |-> chatId, outcome |-> "notReady"]
            /\ UNCHANGED calls
       ELSE /\ CanSuspend
            /\ calls' = Suspend([op |-> "getProfilePicture",
                                 sessionId |-> sessionId, chatId |-> chatId])
            /\ last' = [op |-> "getProfilePicture", sessionId |-> sessionId,
                        chatId |-> chatId, outcome |-> "loading"]
    /\ UNCHANGED << now, sessions, inst, nextInst, chatCache, lastFetchTime,
                    lastSeenMessages, backoffs, refreshWin, fetches,
                    abandoned, libVars >>

\* getProfilePicUrl resolves with a URL (ok), or with nothing or rejects:
\* the URL or null is returned
ProfilePictureSettles(c, ok) ==
    /\ c.op = "getProfilePicture"
    /\ calls' = Resume(c)
    /\ last' = [op |-> "getProfilePicture", sessionId |-> c.sessionId,
                chatId |-> c.chatId, outcome |-> IF ok THEN "url" ELSE "null"]
    /\ UNCHANGED << now, sessions, inst, nextInst, chatCache, lastFetchTime,
                    lastSeenMessages, backoffs, refreshWin, fetches,
                    abandoned, libVars >>

(***************************************************************************)
(* The lib service (src/lib/whatsapp-service.ts): getOrCreateSession, the  *)
(* driver events and cleanupInactiveSessions.                              *)
(***************************************************************************)
LibInsts == 1..MaxLibInst

\* this.sessions.delete(sessionId) of the lib service
LibSessionsDelete(ins, sessionId) ==
    IF libSessions[sessionId] = 0 THEN ins
    ELSE [ins EXCEPT ![libSessions[sessionId]].removed = TRUE]

\* getOrCreateSession up to `await this.initialize()`
LibGetOrCreateSession(sessionId) ==
    /\ BagCardinality(libCalls) < MaxLibCalls
    /\ libCalls' = libCalls (+) SetToBag({[sessionId |-> sessionId]})
    /\ libLast' = [op |-> "getOrCreateSession", sessionId |-> sessionId,
                   returned |-> 0, outcome |-> "initializing"]
    /\ UNCHANGED << libSessions, libInst, libNextInst, libInitialized, backendVars >>

\* getOrCreateSession from the return of `await this.initialize()` on: loads
\* is the outcome of the dynamic imports (not attempted once initialized),
\* constructs the outcome of `new Client(...)`
LibInitializeReturns(c, loads, constructs) ==
    /\ libCalls' = libCalls (-) SetToBag({c})
    /\ IF ~libInitialized /\ ~loads
       THEN /\ libLast' = [op |-> "getOrCreateSession", sessionId |-> c.sessionId,
                           returned |-> 0, outcome |-> "loadFailed"]
            /\ UNCHANGED << libSessions, libInst, libNextInst, libInitialized >>
       ELSE /\ libInitialized' = TRUE
            /\ IF libSessions[c.sessionId] # 0
               THEN /\ libLast' = [op |-> "getOrCreateSession",
                                   sessionId |-> c.sessionId,
                                   returned |-> libSessions[c.sessionId],
                                   outcome |-> "existing"]
                    /\ UNCHANGED << libSessions, libInst, libNextInst >>
               ELSE IF ~constructs
               THEN /\ libLast' = [op |-> "getOrCreateSession",
                                   sessionId |-> c.sessionId,
                                   returned |-> 0, outcome |-> "constructFailed"]
                    /\ UNCHANGED << libSessions, libInst, libNextInst >>
               ELSE /\ libNextInst < MaxLibInst
                    /\ libNextInst' = libNextInst + 1
                    /\ libSessions' = [libSessions EXCEPT ![c.sessionId] = libNextInst']
                    /\ libInst' = [libInst EXCEPT ![libNextInst'] =
                                     [sessionId |-> c.sessionId,
                                      status |-> "connecting",
                                      qrCode |-> None,
                                      removed |-> FALSE]]
                    /\ libLast' = [op |-> "getOrCreateSession",
                                   sessionId |-> c.sessionId,
                                   returned |-> libNextInst',
                                   outcome |-> "constructed"]
    /\ UNCHANGED backendVars

\* client.on('qr') after QRCode.toDataURL resolved, client.on('ready'),
\* client.on('authenticated'), client.on('auth_failure')
LibDriverEvent(i, ev) ==
    /\ libInst[i].sessionId # None
    /\ ev \in {"qr", "ready", "authenticated", "auth_failure"}
    /\ libInst' = [libInst EXCEPT
                    ![i].status = CASE ev = "qr" -> "qr"
                                    [] ev = "ready" -> "ready"
                                    [] ev = "authenticated" -> @
                                    [] ev = "auth_failure" -> "disconnected",
                    ![i].qrCode = CASE ev = "qr" -> "qr"
                                    [] ev = "authenticated" -> @
                                    [] OTHER -> None]
    /\ libLast' = [op |-> "event", sessionId |-> libInst[i].sessionId, event |-> ev]
    /\ UNCHANGED << libSessions, libNextInst, libInitialized, libCalls, backendVars >>

\* client.on('disconnected') of the lib service
LibDriverDisconnected(i) ==
    /\ libInst[i].sessionId # None
    /\ libSessions' = [libSessions EXCEPT ![libInst[i].sessionId] = 0]
    /\ libInst' = [LibSessionsDelete(libInst, libInst[i].sessionId) EXCEPT
                     ![i].status = "disconnected", ![i].qrCode = None]
    /\ libLast' = [op |-> "event", sessionId |-> libInst[i].sessionId,
                   event |-> "disconnected"]
    /\ UNCHANGED << libNextInst, libInitialized, libCalls, backendVars >>

\* cleanupInactiveSessions: old is the set of identifiers whose session is
\* older than maxAgeMinutes
LibCleanupInactiveSessions(old) ==
    LET gone == { s \in old : /\ libSessions[s] # 0
                              /\ libInst[libSessions[s]].status = "disconnected" }
    IN /\ gone # {}
       /\ libSessions' = [s \in SessionIds |-> IF s \in gone THEN 0 ELSE libSessions[s]]
       /\ libInst' = [i \in LibInsts |->
                        IF \E s \in gone : libSessions[s] = i
                        THEN [libInst[i] EXCEPT !.removed = TRUE]
                        ELSE libInst[i]]
       /\ libLast' = [op |-> "cleanupInactiveSessions"]
       /\ UNCHANGED << libNextInst, libInitialized, libCalls, backendVars >>


(***************************************************************************)
(* Time.                                                                    *)
(***************************************************************************)
\* the clock advances; a timer that is due fires first.  last describes a
\* step taken at the current instant
TickTo(end) ==
    /\ now < end
    /\ \A c \in BagToSet(calls) : ~TimerDue(c) /\ ~MsgTimerDue(c)
    /\ \A i \in Insts : ~InitTimeoutDue(i)
    /\ now' = now + TimeStep
    /\ inst' = CheckStatusChange(inst)
    /\ last' = [op |-> "tick"]
    /\ refreshWin' = [s \in SessionIds |->
                        IF Throttled(s, now') THEN refreshWin[s] ELSE NoWin]
    /\ UNCHANGED << sessions, nextInst, chatCache, lastFetchTime,
                    lastSeenMessages, calls, backoffs, fetches, abandoned, libVars >>


(***************************************************************************)
(* The whole backend service.                                               *)
(***************************************************************************)
Tick == TickTo(EndTime)

Next ==
    \/ \E s \in SessionIds, constructs \in BOOLEAN : CreateSession(s, constructs)
    \/ \E i \in Insts, ok \in BOOLEAN : InitializeSettles(i, ok)
    \/ \E i \in Insts, ev \in {"ready", "authenticated", "auth_failure"} :
          DriverEvent(i, ev)
    \/ \E i \in Insts : DriverQr(i)
    \/ \E i \in Insts, ok \in BOOLEAN : QrEncoded(i, ok)
    \/ \E i \in Insts : InitTimeout(i)
    \/ \E i \in Insts : DriverDisconnected(i)
    \/ \E i \in Insts : PageCloses(i)
    \/ \E s \in SessionIds, destroys \in BOOLEAN : ForceCleanup(s, destroys)
    \/ \E s \in SessionIds : DisconnectSession(s)
    \/ \E c \in BagToSet(calls) : DisconnectSettles(c)
    \/ \E s \in SessionIds : RefreshChatCache(s)
    \/ \E s \in SessionIds, archived \in BOOLEAN, p \in PageArgs :
          GetChats(s, archived, p[1], p[2])
    \/ \E c \in BagToSet(calls), upstream \in UpstreamResults :
          FetchResolves(c, upstream)
    \/ \E c \in BagToSet(calls), cause \in {"timeout", "Session closed", "error"},
             late \in BOOLEAN :
          FetchLost(c, cause, late)
    \/ \E u \in abandoned, upstream \in UpstreamResults \cup {<< >>} :
          AbandonedSettles(u, upstream)
    \/ \E s \in SessionIds, to \in Destinations : SendMessageTo(s, to)
    \/ \E c \in BagToSet(calls), ok \in BOOLEAN : SendSettles(c, ok)
    \/ \E s \in SessionIds, chatId \in MarkIds : MarkChatAsRead(s, chatId)
    \/ \E c \in BagToSet(calls), ok \in BOOLEAN : MarkLookupSettles(c, ok)
    \/ \E c \in BagToSet(calls), ok \in BOOLEAN : MarkSeenSettles(c, ok)
    \/ \E s \in SessionIds, chatId \in MessageChatIds, includeMedia \in BOOLEAN :
          GetMessages(s, chatId, includeMedia)
    \/ \E c \in BagToSet(calls), chat \in MessageChats : MsgLookupSettles(c, chat)
    \/ \E c \in BagToSet(calls) : MsgFetchResolves(c)
    \/ \E c \in BagToSet(calls), cause \in {"timeout", "Session closed", "error"} :
          MsgFails(c, cause)
    \/ \E c \in BagToSet(calls) :
          \E k \in RowsOf(c), ok \in BOOLEAN, contact \in ContactResults :
             ContactSettles(c, k, ok, contact)
    \/ \E c \in BagToSet(calls) :
          \E k \in RowsOf(c), ok \in BOOLEAN : MediaSettles(c, k, ok)
    \/ \E s \in SessionIds, chatId \in MarkIds : GetProfilePicture(s, chatId)
    \/ \E c \in BagToSet(calls), ok \in BOOLEAN : ProfilePictureSettles(c, ok)
    \/ Tick

Spec == Init /\ [][Next]_vars

(***************************************************************************)
(* The throttle of listChats: one session gets ready, clients list both    *)
(* partitions and refresh the cache, upstream answers, fails or is late.   *)
(***************************************************************************)
NextThrottle ==
    \/ CreateSession("a", TRUE)
    \/ \E i \in Insts : DriverEvent(i, "ready")
    \/ \E i \in Insts : InitTimeout(i)
    \/ RefreshChatCache("a")
    \/ \E archived \in BOOLEAN : GetChats("a", archived, 0, 2)
    \/ \E c \in BagToSet(calls), upstream \in {Upstream1, Upstream3} :
          FetchResolves(c, upstream)
    \/ \E c \in BagToSet(calls), cause \in {"timeout", "error"} :
          FetchFails(c, cause)
    \/ Tick

SpecThrottle == Init /\ [][NextThrottle]_vars


(***************************************************************************)
(* Claims on the throttle.                                                  *)
(***************************************************************************)
\* the steps of getChats that decide between cache, cleanup and fetch
EntryOutcomes == {"cache", "disconnected", "fetch"}

\* C1: a fetch is started only when the time since the recorded last fetch
\* attempt of the session is at least the minimum interval, also when the
\* requested partition has no cache entry
C1_ThrottleInvariant ==
    (last.op = "getChats" /\ last.outcome = "fetch")
        => last.timeSinceLastFetch >= MIN_FETCH_INTERVAL

\* C2: two listChats calls for the same (session, archived) key that overlap
\* or follow each other inside the minimum interval never both fetch
C2_NoStampede ==
    \A c \in BagToSet(calls) :
        c.op = "getChats" =>
            /\ CopiesIn(c, calls) = 1
            /\ \A d \in BagToSet(calls) \ {c} :
                  (d.op = "getChats" /\ d.sessionId = c.sessionId
                                     /\ d.archived = c.archived)
                      => \/ d.startedAt - c.startedAt >= MIN_FETCH_INTERVAL
                         \/ c.startedAt - d.startedAt >= MIN_FETCH_INTERVAL

\* C4: a listChats call on a ready session that finds a cache entry younger
\* than the freshness window returns a page of that entry and starts no
\* fetch, whatever the throttle state is
C4_PureCacheHit ==
    [][ (last'.op = "getChats" /\ last'.outcome \in EntryOutcomes /\ last'.fresh)
          => /\ last'.outcome = "cache"
             /\ last'.snapshot =
                   chatCache[CacheKey(last'.sessionId, last'.archived)].chats
             /\ last'.result = ListResult(last'.snapshot, last'.offset, last'.limit,
                                          lastSeenMessages'[last'.sessionId].seen)
             /\ fetches' = fetches
             /\ calls' = calls
             /\ chatCache' = chatCache
             /\ lastFetchTime' = lastFetchTime ]_vars

\* C4 happens: a fresh entry is served although the throttle would allow a fetch
C4_Witness ==
    /\ last.op = "getChats" /\ last.outcome = "cache" /\ last.fresh
    /\ last.timeSinceLastFetch >= MIN_FETCH_INTERVAL
    /\ Len(last.result.chats) > 0

\* C5: the wait enforced after a timeout grows from each timeout in a row to
\* the next until it is the ceiling, and never exceeds the ceiling
C5_BackoffGrowth ==
    \A s \in SessionIds :
        /\ \A k \in 1..Len(backoffs[s]) : backoffs[s][k] <= MAX_BACKOFF
        /\ \A k \in 1..(Len(backoffs[s]) - 1) :
              \/ backoffs[s][k + 1] > backoffs[s][k]
              \/ backoffs[s][k] = MAX_BACKOFF

\* C6: when a fetch succeeds, whatever timeouts preceded it, the throttle of
\* the session holds the time of the success: the throttle closes the
\* session for exactly one base interval from now
C6_BackoffReset ==
    (last.op = "getChats" /\ last.outcome = "fetched")
        => /\ LastFetch(last.sessionId) = now
           /\ Throttled(last.sessionId, now + MIN_FETCH_INTERVAL - 1)
           /\ ~Throttled(last.sessionId, now + MIN_FETCH_INTERVAL)
           /\ backoffs[last.sessionId] = << >>

\* C6 happens: a fetch succeeds after two timeouts in a row
C6_Witness ==
    /\ last.op = "getChats" /\ last.outcome = "fetched"
    /\ last.timeouts >= 2

\* C8: after a refreshChatCache, the listChats calls made while the throttle
\* interval of the session has not elapsed start at most one fetch in total
C8_RefreshRateLimited ==
    \A s \in SessionIds : refreshWin[s].started <= 1


\* C16: a listChats call on a ready session made before the minimum interval
\* since the last fetch attempt elapsed, with no cache entry for the key,
\* fails as rate limited and starts no fetch
C16_RateLimitedWithoutCache ==
    ( /\ last.op = "getChats" /\ last.outcome \in EntryOutcomes
      /\ last.cached = NoEntry
      /\ last.timeSinceLastFetch < MIN_FETCH_INTERVAL )
        => last.outcome = "rateLimited"

\* the steps of getChats that end a fetch that did not succeed
FailedOutcomes == {"stale", "rateLimited"}

\* C17: when the fetch of a listChats call times out, the call returns the
\* page of the entry it found at its start if there was one, and fails as
\* rate limited otherwise; the cache entry of the key is as it was before
\* the timeout and a session that was ready is still registered and ready
C17_TimeoutRecovery ==
    (last.op = "getChats" /\ last.outcome \in FailedOutcomes
                          /\ last.cause = "timeout")
        => /\ IF last.cached # NoEntry
              THEN /\ last.outcome = "stale"
                   /\ last.snapshot = last.cached.chats
                   /\ last.result =
                         ListResult(last.cached.chats, last.offset, last.limit,
                                    lastSeenMessages[last.sessionId].seen)
              ELSE last.outcome = "rateLimited"
           /\ chatCache[CacheKey(last.sessionId, last.archived)] = last.entry
           /\ last.wasReady => ~NotReady(last.sessionId)

\* C17 happens: a timeout was answered with a non-empty page of the entry
\* that went stale
C17_Witness ==
    /\ last.op = "getChats" /\ last.outcome = "stale" /\ last.cause = "timeout"
    /\ last.cached # NoEntry
    /\ now - last.cached.timestamp >= CACHE_DURATION
    /\ Len(last.result.chats) > 0
    /\ chatCache[CacheKey(last.sessionId, last.archived)] = last.cached
    /\ ~NotReady(last.sessionId)


\* C27: a listChats call on a ready session that finds a cache entry older
\* than the freshness window while the minimum interval since the last
\* fetch attempt has not elapsed returns a page of that entry, starts no
\* fetch and leaves the cache and the throttle as they are
C27_ServeStaleUnderThrottle ==
    [][ ( /\ last'.op = "getChats" /\ last'.outcome \in EntryOutcomes
          /\ last'.cached # NoEntry
          /\ ~last'.fresh
          /\ last'.timeSinceLastFetch < MIN_FETCH_INTERVAL )
          => /\ last'.outcome = "cache"
             /\ last'.snapshot =
                   chatCache[CacheKey(last'.sessionId, last'.archived)].chats
             /\ last'.result = ListResult(last'.snapshot, last'.offset, last'.limit,
                                          lastSeenMessages'[last'.sessionId].seen)
             /\ fetches' = fetches
             /\ calls' = calls
             /\ chatCache' = chatCache
             /\ lastFetchTime' = lastFetchTime ]_vars

\* C27 happens: an entry older than two minutes is served because a fetch
\* was attempted less than 30 seconds ago
C27_Witness ==
    /\ last.op = "getChats" /\ last.outcome = "cache" /\ ~last.fresh
    /\ now - last.cached.timestamp >= CACHE_DURATION
    /\ last.timeSinceLastFetch < MIN_FETCH_INTERVAL
    /\ Len(last.result.chats) > 0
    /\ chatCache[CacheKey(last.sessionId, last.archived)] = last.cached


\* the timestamp of the last message of an upstream chat, 0 without one
LastTimestamp(chat) == IF chat.hasLast THEN chat.ts ELSE 0

\* C28: every chat cache entry holds only chats of its partition, in
\* descending order of their last-message timestamp (0 without a last
\* message); the entry a successful fetch stores holds exactly the chats of
\* the partition the driver listed and carries the time of the store, and
\* the throttle of the session then closes it for one base interval
C28_CacheEntryWellFormed ==
    /\ \A s \in SessionIds, archived \in BOOLEAN :
          LET entry == chatCache[CacheKey(s, archived)]
          IN entry # NoEntry
                => /\ \A k \in 1..Len(entry.chats) :
                         entry.chats[k].archived = archived
                   /\ \A k \in 1..(Len(entry.chats) - 1) :
                         LastTimestamp(entry.chats[k])
                            >= LastTimestamp(entry.chats[k + 1])
    /\ (last.op = "getChats" /\ last.outcome = "fetched")
          => LET entry == chatCache[CacheKey(last.sessionId, last.archived)]
                 listed == { last.upstream[k] : k \in 1..Len(last.upstream) }
                 stored == { entry.chats[k] : k \in 1..Len(entry.chats) }
             IN /\ stored = { chat \in listed : chat.archived = last.archived }
                /\ Len(entry.chats) = Cardinality(stored)
                /\ entry.timestamp = now
                /\ last.snapshot = entry.chats
                /\ lastFetchTime[last.sessionId] = now
                /\ ~Throttled(last.sessionId, now + MIN_FETCH_INTERVAL)

\* C28 happens: after a timeout a fetch stored the normal partition of an
\* account that has an archived chat and a chat without messages
C28_Witness ==
    /\ last.op = "getChats" /\ last.outcome = "fetched"
    /\ ~last.archived /\ last.upstream = Upstream3
    /\ last.timeouts >= 1
    /\ Len(chatCache[CacheKey(last.sessionId, FALSE)].chats) = 3
    /\ ~chatCache[CacheKey(last.sessionId, FALSE)].chats[3].hasLast


(***************************************************************************)
(* The registries: clients create, disconnect and clean up sessions of one *)
(* identifier in both services while the drivers come up or go away.       *)
(***************************************************************************)
NextRegistry ==
    \/ \E constructs \in BOOLEAN : CreateSession("a", constructs)
    \/ \E i \in Insts, ok \in BOOLEAN : InitializeSettles(i, ok)
    \/ \E i \in Insts : DriverDisconnected(i)
    \/ ForceCleanupSession("a")
    \/ LibGetOrCreateSession("a")
    \/ \E c \in BagToSet(libCalls), loads \in BOOLEAN, constructs \in BOOLEAN :
          LibInitializeReturns(c, loads, constructs)
    \/ \E i \in LibInsts : LibDriverEvent(i, "auth_failure")
    \/ \E i \in LibInsts : LibDriverDisconnected(i)
    \/ LibCleanupInactiveSessions({"a"})

SpecRegistry == Init /\ [][NextRegistry]_vars

\* the session objects of an identifier that were not removed from the registry
Live(sessionId) ==
    { i \in Insts : inst[i].sessionId = sessionId /\ ~inst[i].removed }
LibLive(sessionId) ==
    { i \in LibInsts : libInst[i].sessionId = sessionId /\ ~libInst[i].removed }

\* C3: in both services, of the sessions ever constructed for an identifier
\* at most one was not removed from the registry, and it is the registered
\* one; a call that returns a session returns the registered one, unless
\* the session it created was removed meanwhile
C3_GetOrCreateIdempotent ==
    /\ \A s \in SessionIds :
          /\ Live(s) \subseteq {sessions[s]}
          /\ LibLive(s) \subseteq {libSessions[s]}
    /\ (last.op = "createSession" /\ last.returned # 0)
          => \/ last.returned = sessions[last.sessionId]
             \/ inst[last.returned].removed
    /\ (libLast.op = "getOrCreateSession" /\ libLast.returned # 0)
          => \/ libLast.returned = libSessions[libLast.sessionId]
             \/ libInst[libLast.returned].removed

\* C3 happens: in each service a second call with the identifier returned
\* the existing session while its driver was still coming up
C3_Witness ==
    /\ last.op = "createSession" /\ last.outcome = "existing"
    /\ last.returned = sessions[last.sessionId]
    /\ inst[last.returned].initialize = "pending"
    /\ libLast.op = "getOrCreateSession" /\ libLast.outcome = "existing"
    /\ libLast.returned = libSessions[libLast.sessionId]
    /\ libInst[libLast.returned].status = "connecting"
    /\ libCalls # EmptyBag


(***************************************************************************)
(* Invalidation: one session, clients list, send, mark as read and refresh. *)
(***************************************************************************)
\* number of clock steps of this scenario
InvalidateTicks == 2

NextInvalidate ==
    \/ CreateSession("a", TRUE)
    \/ \E i \in Insts : DriverEvent(i, "ready")
    \/ \E i \in Insts : InitTimeout(i)
    \/ RefreshChatCache("a")
    \/ \E archived \in BOOLEAN : GetChats("a", archived, 0, 2)
    \/ \E c \in BagToSet(calls) : FetchResolves(c, Upstream1)
    \/ \E c \in BagToSet(calls) : FetchFails(c, "timeout")
    \/ SendMessage("a")
    \/ \E c \in BagToSet(calls), ok \in BOOLEAN : SendSettles(c, ok)
    \/ \E chatId \in MarkIds : MarkChatAsRead("a", chatId)
    \/ \E c \in BagToSet(calls), ok \in BOOLEAN : MarkLookupSettles(c, ok)
    \/ \E c \in BagToSet(calls), ok \in BOOLEAN : MarkSeenSettles(c, ok)
    \/ TickTo(StartTime + InvalidateTicks * TimeStep)

SpecInvalidate == Init /\ [][NextInvalidate]_vars

\* C7: right after a successful sendMessage, a successful markChatAsRead or
\* a refreshChatCache the session has no chat cache entry, in neither partition
C7_Invalidation ==
    ( \/ last.op = "sendMessage" /\ last.outcome = "sent"
      \/ last.op = "markChatAsRead" /\ last.outcome = "recorded"
      \/ last.op = "refreshChatCache" )
        => \A archived \in BOOLEAN :
              chatCache[CacheKey(last.sessionId, archived)] = NoEntry

(***************************************************************************)
(* Unread counts and pages: one session, clients list the chats page by   *)
(* page (the controller never asks for the archived partition) and mark a  *)
(* chat as read while the account changes upstream.                        *)
(***************************************************************************)
\* number of clock steps of this scenario
UnreadTicks == 3

NextUnread ==
    \/ CreateSession("a", TRUE)
    \/ \E i \in Insts : DriverEvent(i, "ready")
    \/ \E i \in Insts : InitTimeout(i)
    \/ \E p \in PageArgs : GetChats("a", FALSE, p[1], p[2])
    \/ \E c \in BagToSet(calls), upstream \in UpstreamResults :
          FetchResolves(c, upstream)
    \/ \E c \in BagToSet(calls) : FetchFails(c, "timeout")
    \/ \E chatId \in MarkIds : MarkChatAsRead("a", chatId)
    \/ \E c \in BagToSet(calls), ok \in BOOLEAN : MarkLookupSettles(c, ok)
    \/ \E c \in BagToSet(calls), ok \in BOOLEAN : MarkSeenSettles(c, ok)
    \/ TickTo(StartTime + UnreadTicks * TimeStep)

SpecUnread == Init /\ [][NextUnread]_vars

\* the steps of getChats that return a page
ServedOutcomes == {"cache", "fetched", "stale"}

\* the upstream records behind the page a getChats call returned
ServedRaw == Slice(last.snapshot, last.offset, last.limit)

\* C9: with T' the time markChatAsRead was recorded for a chat, a page
\* reports 0 unread for that chat when its last message is from the peer
\* and not newer than T'; it reports the upstream count when the last
\* message is from the peer and newer than T' (or nothing was recorded), and
\* when the last message is from the session owner
C9_UnreadOverride ==
    (last.op = "getChats" /\ last.outcome \in ServedOutcomes)
        => /\ Len(last.result.chats) = Len(ServedRaw)
           /\ \A k \in 1..Len(ServedRaw) :
                 LET raw == ServedRaw[k]
                     row == last.result.chats[k]
                     recorded == lastSeenMessages[last.sessionId].seen[raw.id]
                 IN /\ row.id = raw.id
                    /\ (raw.hasLast /\ ~raw.fromMe /\ recorded # NoTime
                                    /\ raw.ts * 1000 <= recorded)
                          => row.unreadCount = 0
                    /\ (raw.hasLast /\ ~raw.fromMe
                                    /\ (recorded = NoTime \/ raw.ts * 1000 > recorded))
                          => row.unreadCount = raw.unreadCount
                    /\ (raw.hasLast /\ raw.fromMe)
                          => row.unreadCount = raw.unreadCount

\* C9 happens: a chat marked as read at the very timestamp of its last
\* message, whose upstream count is still positive, is reported with 0 unread
C9_Witness ==
    /\ last.op = "getChats" /\ last.outcome \in ServedOutcomes
    /\ \E k \in 1..Len(ServedRaw) :
          /\ ServedRaw[k].unreadCount > 0
          /\ ~ServedRaw[k].fromMe
          /\ lastSeenMessages[last.sessionId].seen[ServedRaw[k].id]
                = ServedRaw[k].ts * 1000
          /\ last.result.chats[k].unreadCount = 0

\* the page served at step l reports the upstream count of every chat that
\* has no entry in seen
UpstreamCountKept(l, seen) ==
    LET raw == Slice(l.snapshot, l.offset, l.limit)
    IN \A k \in 1..Len(raw) :
          seen[raw[k].id] = NoTime
             => l.result.chats[k].unreadCount = raw[k].unreadCount

\* C38: a markChatAsRead step that is refused, suspends at the chat lookup
\* or at the acknowledgment, or ends in an error leaves the last-seen
\* entries as they are; the step that returns after the acknowledgment sets
\* the entry of the chat, and of no other chat, to the current time; and a
\* page reports the upstream count of every chat without an entry
C38_MarkAfterAcknowledgment ==
    [][ /\ (last'.op = "markChatAsRead" /\ last'.outcome # "recorded")
           => lastSeenMessages' = lastSeenMessages
        /\ (last'.op = "markChatAsRead" /\ last'.outcome = "recorded")
           => /\ lastSeenMessages'[last'.sessionId].seen
                    = [lastSeenMessages[last'.sessionId].seen
                         EXCEPT ![last'.chatId] = now]
              /\ \A s \in SessionIds \ {last'.sessionId} :
                    lastSeenMessages'[s] = lastSeenMessages[s]
        /\ (last'.op = "getChats" /\ last'.outcome \in ServedOutcomes)
           => UpstreamCountKept(last', lastSeenMessages'[last'.sessionId].seen) ]_vars

\* C38 happens: a markChatAsRead failed after an earlier one was recorded,
\* and the entry is still the time of the earlier one
C38_Witness ==
    /\ last.op = "markChatAsRead" /\ last.outcome = "error"
    /\ lastSeenMessages[last.sessionId].seen[last.chatId] # NoTime
    /\ lastSeenMessages[last.sessionId].seen[last.chatId] < now

\* offsets and limits of the pagination claim
MaxPage == 2
Ids(rows) == { rows[k].id : k \in 1..Len(rows) }

\* C10: over the snapshot a listChats call was served from, the pages
\* (a, m) and (a + m, n) are disjoint, in snapshot order, report the same
\* total, and make up the page (a, m + n); the page the call returned is the
\* page of its offset and limit
C10_Pagination ==
    (last.op = "getChats" /\ last.outcome \in ServedOutcomes)
        => /\ \A a \in 0..MaxPage, m \in 0..MaxPage, n \in 0..MaxPage :
                 LET seen == lastSeenMessages[last.sessionId].seen
                     first == ListResult(last.snapshot, a, m, seen)
                     second == ListResult(last.snapshot, a + m, n, seen)
                     both == ListResult(last.snapshot, a, m + n, seen)
                     all == FormatAll(last.snapshot, seen)
                 IN /\ first.chats \o second.chats = both.chats
                    /\ Ids(first.chats) \cap Ids(second.chats) = {}
                    /\ first.total = second.total /\ first.total = both.total
                    /\ \A k \in 1..Len(both.chats) : both.chats[k] = all[a + k]
           /\ last.result = ListResult(last.snapshot, last.offset, last.limit,
                                       lastSeenMessages[last.sessionId].seen)
           /\ last.result.total = Len(last.snapshot)
           /\ Len(last.result.chats) =
                 Min(last.limit, Len(last.snapshot) - Min(last.offset, Len(last.snapshot)))

\* C10 happens: the second page of a three-chat snapshot was returned
C10_Witness ==
    /\ last.op = "getChats" /\ last.outcome \in ServedOutcomes
    /\ last.offset = 2 /\ Len(last.snapshot) = 3
    /\ Len(last.result.chats) = 1 /\ ~last.result.hasMore
    /\ chatCache[CacheKey(last.sessionId, last.archived)].chats = last.snapshot


(***************************************************************************)
(* The connection state machine: one identifier, the driver issues QR      *)
(* payloads, authenticates, gets ready or fails, while the guard timer of  *)
(* createSession runs.                                                      *)
(***************************************************************************)
\* number of clock steps of this scenario
LifeTicks == 2

NextLifecycle ==
    \/ \E constructs \in BOOLEAN : CreateSession("a", constructs)
    \/ \E i \in Insts, ok \in BOOLEAN : InitializeSettles(i, ok)
    \/ \E i \in Insts : DriverQr(i)
    \/ \E i \in Insts, ok \in BOOLEAN : QrEncoded(i, ok)
    \/ \E i \in Insts, ev \in {"ready", "authenticated", "auth_failure"} :
          DriverEvent(i, ev)
    \/ \E i \in Insts : InitTimeout(i)
    \/ TickTo(StartTime + LifeTicks * TimeStep)

SpecLifecycle == Init /\ [][NextLifecycle]_vars

\* C11: a session is never in connecting after the guard timer's time; when
\* the timer fires on a connecting session the status becomes qr with no
\* stored payload, and every read of the payload gives none; when it fires
\* on a session that left connecting the status stays as it was
C11_ConnectingWatchdog ==
    /\ \A i \in Insts :
          (inst[i].client /\ inst[i].status = "connecting")
              => inst[i].initTimeout # NoTime /\ now <= inst[i].initTimeout
    /\ last.op = "initTimeout"
          => IF last.before = "connecting"
             THEN /\ inst[last.inst].status = "qr"
                  /\ inst[last.inst].qrCode = None
                  /\ sessions[last.sessionId] = last.inst
                        => /\ GetSession(last.sessionId).qrCode = None
                           /\ EndpointQr(last.sessionId) = None
             ELSE inst[last.inst].status = last.before

\* C11 happens: the guard timer fired on a registered session that was
\* connecting for 30 seconds and never issued a QR payload
C11_Witness ==
    /\ last.op = "initTimeout" /\ last.before = "connecting"
    /\ sessions[last.sessionId] = last.inst
    /\ GetSession(last.sessionId).status = "qr"
    /\ GetSession(last.sessionId).qrCode = None
    /\ inst[last.inst].qrPending = 0
    /\ now >= StartTime + INIT_TIMEOUT

\* C18: the completion of a QR encoding writes the status qr and stores the
\* payload only when the status was connecting or qr; otherwise it leaves
\* the status alone and stores nothing
C18_QrTransitionGuard ==
    (last.op = "qrEncoded" /\ last.before \notin {"connecting", "qr"})
        => /\ inst[last.inst].status = last.before
           /\ inst[last.inst].qrCode = None

\* C19: a read of a registered session gives a QR payload only while the
\* status of the session is qr
C19_QrVisibility ==
    \A s \in SessionIds :
        (GetSession(s).found /\ GetSession(s).status # "qr")
            => GetSession(s).qrCode = None

\* C20: a session object whose status is disconnected keeps that status
C20_DisconnectedTerminal ==
    [][ \A i \in Insts :
          inst[i].status = "disconnected" => inst'[i].status = "disconnected" ]_vars


\* the session object was constructed and its driver could not be
\* constructed or initialized
Failed(i) ==
    /\ inst[i].sessionId # None
    /\ ~inst[i].client \/ inst[i].initialize = "failed"

\* C30: a session whose driver could not be constructed or initialized has
\* the status disconnected and stays registered as long as it is not
\* removed; a createSession with its identifier returns that session,
\* disconnected, and constructs nothing
C30_FailedConstructionSticky ==
    /\ \A i \in Insts :
          (Failed(i) /\ ~inst[i].removed)
              => /\ sessions[inst[i].sessionId] = i
                 /\ inst[i].status = "disconnected"
    /\ ( /\ last.op = "createSession" /\ last.outcome = "existing"
         /\ Failed(last.returned) )
          => /\ last.returned = sessions[last.sessionId]
             /\ inst[last.returned].status = "disconnected"


(***************************************************************************)
(* A connection that closes: the browser page of the one session goes away *)
(* while clients list its chats and ask for the session again.             *)
(***************************************************************************)
\* number of clock steps of this scenario
ClosedTicks == 2

NextClosed ==
    \/ CreateSession("a", TRUE)
    \/ \E i \in Insts : DriverEvent(i, "ready")
    \/ \E i \in Insts : InitTimeout(i)
    \/ \E i \in Insts : PageCloses(i)
    \/ GetChats("a", FALSE, 0, 2)
    \/ \E c \in BagToSet(calls) : FetchResolves(c, Upstream1)
    \/ \E c \in BagToSet(calls), cause \in {"timeout", "Session closed", "error"} :
          FetchFails(c, cause)
    \/ TickTo(StartTime + ClosedTicks * TimeStep)

SpecClosed == Init /\ [][NextClosed]_vars

\* C12: no fetch starts on a session whose page is closed; a listChats call
\* that finds the page closed removes the session from the registry, starts
\* no fetch and fails as disconnected; the createSession that follows it
\* constructs a new session object with a new driver
C12_ClosedConnection ==
    [][ /\ fetches' # fetches
           => /\ sessions[last'.sessionId] # 0
              /\ inst[sessions[last'.sessionId]].page = "open"
        /\ (last'.op = "getChats" /\ last'.outcome = "disconnected")
           => /\ sessions'[last'.sessionId] = 0
              /\ \A i \in Insts : inst'[i].sessionId = last'.sessionId
                                     => inst'[i].removed
              /\ fetches' = fetches
              /\ calls' = calls
        /\ ( /\ last.op = "getChats" /\ last.outcome = "disconnected"
             /\ last'.op = "createSession" /\ last'.sessionId = last.sessionId )
           => /\ nextInst' = nextInst + 1
              /\ sessions'[last'.sessionId] = nextInst'
              /\ last'.outcome = "initializing"
              /\ inst'[nextInst'].client
              /\ inst'[nextInst'].page = "open"
              /\ ~inst'[nextInst'].removed ]_vars

\* C12 happens: the session was removed by a listChats call on a closed page
\* (the only removal of this scenario) and created again
C12_Witness ==
    /\ last.op = "createSession" /\ last.outcome = "initializing"
    /\ nextInst = 2 /\ sessions["a"] = 2
    /\ inst[1].removed /\ inst[1].page = "closed"
    /\ inst[2].client /\ inst[2].page = "open"


(***************************************************************************)
(* Teardown: the one session lists chats and marks a chat as read, and is  *)
(* destroyed by disconnectSession, forceCleanupSession or the driver's     *)
(* disconnected event, then created again, all within one instant.         *)
(***************************************************************************)
NextTeardown ==
    \/ CreateSession("a", TRUE)
    \/ \E i \in Insts : DriverEvent(i, "ready")
    \/ GetChats("a", FALSE, 0, 2)
    \/ \E c \in BagToSet(calls) : FetchResolves(c, Upstream1)
    \/ \E chatId \in MarkIds : MarkChatAsRead("a", chatId)
    \/ \E c \in BagToSet(calls), ok \in BOOLEAN : MarkLookupSettles(c, ok)
    \/ \E c \in BagToSet(calls), ok \in BOOLEAN : MarkSeenSettles(c, ok)
    \/ \E destroys \in BOOLEAN : ForceCleanup("a", destroys)
    \/ DisconnectSession("a")
    \/ \E c \in BagToSet(calls) : DisconnectSettles(c)
    \/ \E i \in Insts : DriverDisconnected(i)

SpecTeardown == Init /\ [][NextTeardown]_vars

\* the chats of a session that have a last-seen entry
SeenEntries(sessionId) ==
    { c \in ChatIds : lastSeenMessages[sessionId].seen[c] # NoTime }

\* C13: right after a forced cleanup of a session, by forceCleanupSession
\* or by listChats on a closed page, the identifier is not registered and
\* has no chat cache entry in either partition, no throttle entry and no
\* last-seen entry
C13_ForcedCleanupClears ==
    ( \/ last.op = "forceCleanupSession"
      \/ last.op = "getChats" /\ last.outcome = "disconnected" )
        => /\ sessions[last.sessionId] = 0
           /\ \A archived \in BOOLEAN :
                 chatCache[CacheKey(last.sessionId, archived)] = NoEntry
           /\ lastFetchTime[last.sessionId] = NoTime
           /\ SeenEntries(last.sessionId) = {}

\* C14: an identifier that is not registered has no last-seen entries
C14_LastSeenLifetime ==
    \A s \in SessionIds : sessions[s] = 0 => SeenEntries(s) = {}


\* C31: forceCleanupSession returns within its one step and leaves the
\* identifier unregistered, suspended at no driver call, whether destroy()
\* returned its promise or threw and whether an earlier teardown of the
\* driver is still pending; disconnectSession on a session with a driver,
\* by contrast, stays suspended at destroy() with the session registered
C31_ForcedCleanupCannotHang ==
    [][ /\ last'.op = "forceCleanupSession"
           => /\ sessions'[last'.sessionId] = 0
              /\ calls' = calls
        /\ (last'.op = "disconnectSession" /\ last'.outcome = "destroying")
           => /\ sessions'[last'.sessionId] = sessions[last'.sessionId]
              /\ sessions[last'.sessionId] # 0
              /\ calls' = Suspend([op |-> "disconnectSession",
                                   sessionId |-> last'.sessionId]) ]_vars

\* C31 happens: the session was removed by forceCleanupSession while the
\* destroy() that disconnectSession awaits has not settled
C31_Witness ==
    /\ last.op = "forceCleanupSession"
    /\ sessions[last.sessionId] = 0
    /\ inst[1].removed /\ inst[1].page = "closed"
    /\ [op |-> "disconnectSession", sessionId |-> last.sessionId]
          \in BagToSet(calls)


\* C37: when an identifier is not registered, a step that continues a
\* listChats or markChatAsRead call that was suspended for it leaves its
\* chat cache entries, its throttle entry and its last-seen entries as they
\* are
C37_NoWritesForRemoved ==
    [][ \A c \in BagToSet(calls) :
          ( /\ c.op \in {"getChats", "markChatAsRead"}
            /\ CopiesIn(c, calls') < CopiesIn(c, calls)
            /\ sessions[c.sessionId] = 0 )
             => /\ \A archived \in BOOLEAN :
                      chatCache'[CacheKey(c.sessionId, archived)]
                         = chatCache[CacheKey(c.sessionId, archived)]
                /\ lastFetchTime'[c.sessionId] = lastFetchTime[c.sessionId]
                /\ lastSeenMessages'[c.sessionId] = lastSeenMessages[c.sessionId] ]_vars


\* C15: an upstream failure of the chat-list call other than the timeout is
\* never answered with the stale cache or with the rate-limited error: a
\* session-closed failure ends as disconnected with the session removed,
\* any other failure reaches the caller as it is
C15_FailureClassification ==
    (last.op = "getChats" /\ last.outcome \in FailedOutcomes)
        => last.cause = "timeout"


(***************************************************************************)
(* Operations on a session that is not ready: the one identifier is        *)
(* created, gets ready, fails authentication or is dropped by the driver   *)
(* while clients call the five operations that need a ready session.       *)
(***************************************************************************)
NextNotReady ==
    \/ \E constructs \in BOOLEAN : CreateSession("a", constructs)
    \/ \E i \in Insts, ev \in {"ready", "auth_failure"} : DriverEvent(i, ev)
    \/ \E i \in Insts : DriverDisconnected(i)
    \/ GetChats("a", FALSE, 0, 2)
    \/ \E c \in BagToSet(calls) : FetchResolves(c, Upstream1)
    \/ SendMessage("a")
    \/ \E chatId \in MarkIds : MarkChatAsRead("a", chatId)
    \/ \E chatId \in MessageChatIds : GetMessages("a", chatId, TRUE)
    \/ \E chatId \in MarkIds : GetProfilePicture("a", chatId)

SpecNotReady == Init /\ [][NextNotReady]_vars

\* the operations that need a ready session
GuardedOps ==
    {"getChats", "getMessages", "sendMessage", "markChatAsRead", "getProfilePicture"}

\* what these operations report of their step from the entry
StartOutcomes ==
    {"notReady", "cache", "disconnected", "fetch", "sending", "lookup", "loading"}

\* C21: a call of listChats, getMessages, sendMessage, markChatAsRead or
\* getProfilePicture for an identifier that is not registered or whose
\* session is not ready fails as not ready; it suspends at no driver call,
\* starts no fetch, destroys no driver and leaves the registry, the chat
\* cache, the throttle and the last-seen entries as they are
C21_NotReadyPrecondition ==
    [][ ( /\ last'.op \in GuardedOps
          /\ last'.outcome \in StartOutcomes
          /\ \/ sessions[last'.sessionId] = 0
             \/ inst[sessions[last'.sessionId]].status # "ready" )
          => /\ last'.outcome = "notReady"
             /\ calls' = calls
             /\ fetches' = fetches
             /\ sessions' = sessions
             /\ inst' = inst
             /\ chatCache' = chatCache
             /\ lastFetchTime' = lastFetchTime
             /\ lastSeenMessages' = lastSeenMessages ]_vars

\* C21 happens: getMessages was refused on a registered session that failed
\* authentication after its chats were cached
C21_Witness ==
    /\ last.op = "getMessages" /\ last.outcome = "notReady"
    /\ sessions[last.sessionId] # 0
    /\ inst[sessions[last.sessionId]].status = "disconnected"
    /\ inst[sessions[last.sessionId]].client
    /\ chatCache[CacheKey(last.sessionId, FALSE)] # NoEntry
    /\ lastFetchTime[last.sessionId] # NoTime


(***************************************************************************)
(* listChats under an upstream that may never answer: the one session gets *)
(* ready, its page may close, clients list the chats; the timers fire, the *)
(* driver answers, late or never.                                          *)
(***************************************************************************)
\* number of clock steps of this scenario
LiveTicks == 3
LiveEnd == StartTime + LiveTicks * TimeStep

\* the last call is made while the clock still runs
NextListLive ==
    \/ CreateSession("a", TRUE)
    \/ \E i \in Insts : DriverEvent(i, "ready")
    \/ \E i \in Insts : InitTimeout(i)
    \/ \E i \in Insts : PageCloses(i)
    \/ now < LiveEnd /\ GetChats("a", FALSE, 0, 2)
    \/ \E c \in BagToSet(calls) : FetchResolves(c, Upstream1)
    \/ \E c \in BagToSet(calls) : FetchFails(c, "timeout")
    \/ TickTo(LiveEnd)

\* time passes and the timers that are due fire; the driver owes nothing
SpecListLive ==
    /\ Init /\ [][NextListLive]_vars
    /\ WF_vars(TickTo(LiveEnd))
    /\ WF_vars(\E i \in Insts : InitTimeout(i))
    /\ WF_vars(\E c \in BagToSet(calls) : FetchFails(c, "timeout"))

\* the times a call can start at
LiveTimes == { StartTime + k * TimeStep : k \in 0..LiveTicks }

\* a listChats call that started its fetch at time t has not returned
ListPending(t) ==
    \E c \in BagToSet(calls) : c.op = "getChats" /\ c.startedAt = t

\* C22: every listChats call that waits for the upstream chat list returns
\* a result or an error in the end, whatever the driver does (the calls
\* that do not wait return within their first step)
C22_ListChatsCompletes ==
    \A t \in LiveTimes : ListPending(t) ~> ~ListPending(t)

\* C22 happens: a call whose upstream call was never answered was ended by
\* its timer, 15 seconds after it started
C22_Witness ==
    /\ last.op = "getChats" /\ last.outcome = "rateLimited"
    /\ last.cause = "timeout"
    /\ fetches = 1
    /\ calls = EmptyBag
    /\ now = StartTime + FETCH_TIMEOUT


(***************************************************************************)
(* getMessages: the one session is ready and clients open a chat; the      *)
(* driver answers the chat lookup, the message fetch, the contact lookups  *)
(* and the media downloads, fails them or never answers; the timers fire.  *)
(***************************************************************************)
\* number of clock steps of this scenario
MsgTicks == 1
MsgEnd == StartTime + MsgTicks * TimeStep

\* the last call is made, and the last chat lookup answered, while the clock
\* still runs
NextMessages ==
    \/ CreateSession("a", TRUE)
    \/ \E i \in Insts : DriverEvent(i, "ready")
    \/ now < MsgEnd /\ \E chatId \in MessageChatIds : GetMessages("a", chatId, TRUE)
    \/ now < MsgEnd /\ \E c \in BagToSet(calls), chat \in MessageChats :
                           MsgLookupSettles(c, chat)
    \/ \E c \in BagToSet(calls) : MsgFetchResolves(c)
    \/ \E c \in BagToSet(calls), cause \in {"timeout", "Session closed", "error"} :
          MsgFails(c, cause)
    \/ \E c \in BagToSet(calls) :
          \E k \in RowsOf(c), ok \in BOOLEAN, contact \in ContactResults :
             ContactSettles(c, k, ok, contact)
    \/ \E c \in BagToSet(calls) :
          \E k \in RowsOf(c), ok \in BOOLEAN : MediaSettles(c, k, ok)
    \/ TickTo(MsgEnd)

\* time passes and the timer of a message fetch fires when it is due; the
\* driver owes nothing
SpecMessages ==
    /\ Init /\ [][NextMessages]_vars
    /\ WF_vars(TickTo(MsgEnd))
    /\ WF_vars(\E c \in BagToSet(calls) : MsgFails(c, "timeout"))

\* a getMessages call has not returned
MsgPending == \E c \in BagToSet(calls) : c.op = "getMessages"

\* C23: every getMessages call returns a result or an error in the end,
\* whatever the driver does
C23_GetMessagesCompletes == MsgPending ~> ~MsgPending

\* C24: when the timer of the message fetch wins the race, getMessages
\* fails with the timeout error and returns no messages; no cleanup runs:
\* the registry, the session and its driver, the chat cache, the throttle
\* and the last-seen entries are what they were
C24_TimeoutReported ==
    [][ ( /\ last'.op = "getMessages"
          /\ "cause" \in DOMAIN last'
          /\ last'.cause = "timeout" )
          => /\ last'.outcome = "error"
             /\ "result" \notin DOMAIN last'
             /\ sessions' = sessions
             /\ inst' = inst
             /\ chatCache' = chatCache
             /\ lastFetchTime' = lastFetchTime
             /\ lastSeenMessages' = lastSeenMessages ]_vars

\* C24 happens: a message fetch timed out on a session that is still
\* registered, ready and usable
C24_Witness ==
    /\ last.op = "getMessages" /\ last.outcome = "error"
    /\ last.cause = "timeout"
    /\ ~NotReady(last.sessionId)
    /\ inst[sessions[last.sessionId]].page = "open"
    /\ now >= StartTime + MSG_FETCH_TIMEOUT

\* the number shown for the sender of the group chat
ShownNumber(author) == IF author = PeerA THEN "+4915" ELSE "+"

\* C25: in the messages getMessages returns, a message of a group chat that
\* the owner did not send and whose contact lookup succeeded carries the
\* saved name of the contact if there is one and "~ <pushname> <+number>"
\* otherwise (Unknown standing for a missing push name); a message of a
\* chat that is no group, or sent by the owner, carries no author name
C25_AuthorName ==
    (last.op = "getMessages" /\ last.outcome = "messages")
        => /\ Len(last.result) = Len(last.rows)
           /\ \A k \in 1..Len(last.rows) :
                 LET row == last.rows[k]
                     shown == CHOOSE r \in { last.result[j] : j \in 1..Len(last.result) } :
                                 r.id = row.msg.id
                 IN IF last.isGroup /\ ~row.msg.fromMe
                    THEN row.looked = "ok"
                            => shown.authorName =
                                  IF row.contact.name # "" THEN row.contact.name
                                  ELSE "~ " \o (IF row.contact.pushname # ""
                                                THEN row.contact.pushname
                                                ELSE "Unknown")
                                            \o " " \o ShownNumber(row.msg.author)
                    ELSE shown.authorName = None


\* C32: the list a successful getMessages call returns has every fetched
\* message exactly once and nothing else, in order of non-decreasing
\* timestamp
C32_ChronologicalMessages ==
    (last.op = "getMessages" /\ last.outcome = "messages")
        => /\ Len(last.result) = Len(last.rows)
           /\ \A k \in 1..Len(last.rows) :
                 Cardinality({ j \in 1..Len(last.result) :
                                 /\ last.result[j].id = last.rows[k].msg.id
                                 /\ last.result[j].timestamp
                                       = last.rows[k].msg.ts * 1000 }) = 1
           /\ \A j \in 1..(Len(last.result) - 1) :
                 last.result[j].timestamp <= last.result[j + 1].timestamp

\* C32 happens: three messages that upstream gave neither oldest first nor
\* newest first were returned, the two of one second before the third
C32_Witness ==
    /\ last.op = "getMessages" /\ last.outcome = "messages"
    /\ Len(last.result) = 3
    /\ last.rows[1].msg.ts < last.rows[2].msg.ts
    /\ last.rows[2].msg.ts > last.rows[3].msg.ts
    /\ last.result[1].timestamp = last.result[2].timestamp
    /\ last.result[3].id = last.rows[2].msg.id



(***************************************************************************)
(* Enrichment of the messages: the one session is ready and clients open a *)
(* chat with and without media; the driver answers or fails the chat       *)
(* lookup, the message fetch, the contact lookups and the media downloads, *)
(* all within one instant.                                                  *)
(***************************************************************************)
NextEnrich ==
    \/ CreateSession("a", TRUE)
    \/ \E i \in Insts : DriverEvent(i, "ready")
    \/ \E chatId \in MessageChatIds, includeMedia \in BOOLEAN :
          GetMessages("a", chatId, includeMedia)
    \/ \E c \in BagToSet(calls), chat \in MessageChats : MsgLookupSettles(c, chat)
    \/ \E c \in BagToSet(calls) : MsgFetchResolves(c)
    \/ \E c \in BagToSet(calls) : MsgFails(c, "error")
    \/ \E c \in BagToSet(calls) :
          \E k \in RowsOf(c), ok \in BOOLEAN, contact \in {Contact("Cy", ""), NoContact} :
             ContactSettles(c, k, ok, contact)
    \/ \E c \in BagToSet(calls) :
          \E k \in RowsOf(c), ok \in BOOLEAN : MediaSettles(c, k, ok)

SpecEnrich == Init /\ [][NextEnrich]_vars

\* the text a message shows when it carries no media payload
TextOf(message) ==
    IF message.body # "" THEN message.body ELSE Placeholder(message.type)

\* C33: once the message fetch succeeded, a contact lookup or a media
\* download that fails keeps getMessages formatting or lets it return the
\* messages, never an error; in the list returned every fetched message is
\* present with its own timestamp and sender flag; a message whose contact
\* lookup failed carries the formatted number of its author, a message whose
\* download failed carries no media payload and its text or the placeholder
\* of its type, a message that needed neither lookup nor download is as
\* fetched, and without includeMedia nothing is downloaded
C33_EnrichmentFailures ==
    [][ /\ (\E c \in BagToSet(calls) :
              /\ c.op = "getMessages" /\ c.stage = "format"
              /\ CopiesIn(c, calls') < CopiesIn(c, calls))
           => /\ last'.op = "getMessages"
              /\ last'.outcome \in {"formatting", "messages"}
        /\ (last'.op = "getMessages" /\ last'.outcome = "messages")
           => /\ Len(last'.result) = Len(last'.rows)
              /\ \A k \in 1..Len(last'.rows) :
                    LET row == last'.rows[k]
                        shown == CHOOSE r \in { last'.result[j] :
                                                  j \in 1..Len(last'.result) } :
                                    r.id = row.msg.id
                    IN /\ \E j \in 1..Len(last'.result) :
                             last'.result[j].id = row.msg.id
                       /\ shown.timestamp = row.msg.ts * 1000
                       /\ shown.fromMe = row.msg.fromMe
                       /\ row.looked = "failed"
                             => shown.authorName = ShownNumber(row.msg.author)
                       /\ row.download = "failed"
                             => ~shown.mediaData /\ shown.body = TextOf(row.msg)
                       /\ row.download = "ok" => shown.mediaData
                       /\ ~last'.includeMedia
                             => row.download = None /\ ~shown.mediaData
                       /\ (row.looked = None /\ row.download = None)
                             => /\ shown.authorName = None
                                /\ ~shown.mediaData
                                /\ shown.body = TextOf(row.msg) ]_vars

\* C33 happens: the contact lookup and the sticker download of the peer's
\* message failed and both messages of the group chat were returned
C33_Witness ==
    /\ last.op = "getMessages" /\ last.outcome = "messages"
    /\ last.isGroup /\ last.includeMedia
    /\ Len(last.result) = 2
    /\ \E k \in 1..Len(last.rows) :
          /\ last.rows[k].looked = "failed"
          /\ last.rows[k].download = "failed"
          /\ last.rows[k].msg.type = "sticker"
    /\ \E k \in 1..Len(last.rows) :
          last.rows[k].looked = None /\ last.rows[k].download = None


(***************************************************************************)
(* Two sessions: clients work with two identifiers at the same instant,    *)
(* listing, sending, refreshing and cleaning up.                           *)
(***************************************************************************)
NextIsolation ==
    \/ \E s \in SessionIds : CreateSession(s, TRUE)
    \/ \E i \in Insts : DriverEvent(i, "ready")
    \/ \E s \in SessionIds : GetChats(s, FALSE, 0, 2)
    \/ \E c \in BagToSet(calls) : FetchResolves(c, Upstream1)
    \/ \E s \in SessionIds : SendMessage(s)
    \/ \E c \in BagToSet(calls), ok \in BOOLEAN : SendSettles(c, ok)
    \/ \E s \in SessionIds : RefreshChatCache(s)
    \/ \E s \in SessionIds : ForceCleanupSession(s)

SpecIsolation == Init /\ [][NextIsolation]_vars

\* C26: a step of an operation or a driver event of one identifier leaves
\* the registry entry, the chat cache entries, the throttle entry and the
\* last-seen entries of every other identifier as they are
C26_SessionIsolation ==
    [][ \A other \in SessionIds :
          ("sessionId" \in DOMAIN last' /\ last'.sessionId # other)
             => /\ sessions'[other] = sessions[other]
                /\ \A archived \in BOOLEAN :
                      chatCache'[CacheKey(other, archived)]
                         = chatCache[CacheKey(other, archived)]
                /\ lastFetchTime'[other] = lastFetchTime[other]
                /\ lastSeenMessages'[other] = lastSeenMessages[other] ]_vars


(***************************************************************************)
(* Late answers: the one session is ready, clients list its chats, the     *)
(* timer beats the driver and the driver answers afterwards.                *)
(***************************************************************************)
\* number of clock steps of this scenario
LateTicks == 3

NextLate ==
    \/ CreateSession("a", TRUE)
    \/ \E i \in Insts : DriverEvent(i, "ready")
    \/ \E archived \in BOOLEAN : GetChats("a", archived, 0, 2)
    \/ \E c \in BagToSet(calls) : FetchResolves(c, Upstream1)
    \/ \E c \in BagToSet(calls), late \in BOOLEAN : FetchLost(c, "timeout", late)
    \/ \E u \in abandoned, upstream \in {Upstream3, << >>} :
          AbandonedSettles(u, upstream)
    \/ \E i \in Insts : InitTimeout(i)
    \/ TickTo(StartTime + LateTicks * TimeStep)

SpecLate == Init /\ [][NextLate]_vars

\* C29: when the upstream call of a fetch that timed out settles later, the
\* chat cache, the throttle, the last-seen entries and the registry, which
\* decide the result of every listChats call, are what they were, no
\* suspended call is resumed and no call returns
C29_AbandonedFetchIgnored ==
    [][ (\E u \in abandoned :
            /\ ~u.settled
            /\ u \notin abandoned'
            /\ [u EXCEPT !.settled = TRUE] \in abandoned')
          => /\ chatCache' = chatCache
             /\ lastFetchTime' = lastFetchTime
             /\ lastSeenMessages' = lastSeenMessages
             /\ sessions' = sessions
             /\ inst' = inst
             /\ calls' = calls
             /\ last' = last ]_vars

\* C29 happens: the driver answered a call after its timeout, and the entry
\* of the key is the one a later fetch of the two-chat list stored
C29_Witness ==
    \E u \in abandoned :
        /\ u.settled
        /\ ~u.archived
        /\ chatCache[CacheKey(u.sessionId, FALSE)] # NoEntry
        /\ Len(chatCache[CacheKey(u.sessionId, FALSE)].chats) = 2
        /\ lastFetchTime[u.sessionId] = chatCache[CacheKey(u.sessionId, FALSE)].timestamp


(***************************************************************************)
(* Sending: the one session is ready and clients send to bare numbers and  *)
(* to addresses while the chat list is fetched and cached.                  *)
(***************************************************************************)
NextSend ==
    \/ CreateSession("a", TRUE)
    \/ \E i \in Insts : DriverEvent(i, "ready")
    \/ \E to \in Destinations : SendMessageTo("a", to)
    \/ \E c \in BagToSet(calls), ok \in BOOLEAN : SendSettles(c, ok)
    \/ \E archived \in BOOLEAN : GetChats("a", archived, 0, 2)
    \/ \E c \in BagToSet(calls) : FetchResolves(c, Upstream1)

SpecSend == Init /\ [][NextSend]_vars

\* the destination ends with suffix
EndsWith(to, suffix) ==
    /\ Len(to) >= Len(suffix)
    /\ SubSeq(to, Len(to) - Len(suffix) + 1, Len(to)) = suffix

\* C34: the destination sendMessage hands to the driver is the given one
\* when that is the address of an individual or of a group, and the given
\* number followed by the suffix of an individual's address otherwise;
\* formatting it once more changes nothing
C34_DestinationAddressing ==
    (last.op = "sendMessage" /\ last.outcome = "sending")
        => /\ last.formattedNumber =
                 IF \/ EndsWith(last.to, IndividualSuffix)
                    \/ EndsWith(last.to, GroupSuffix)
                 THEN last.to
                 ELSE last.to \o IndividualSuffix
           /\ FormattedDestination(last.formattedNumber) = last.formattedNumber


(***************************************************************************)
(* Late callbacks: the one identifier is created, cleaned up and created   *)
(* again while the drivers, the old one as well, raise their events and    *)
(* the guard timers fire.                                                   *)
(***************************************************************************)
\* number of clock steps of this scenario
StaleTicks == 2

NextStale ==
    \/ CreateSession("a", TRUE)
    \/ ForceCleanupSession("a")
    \/ \E i \in Insts, ev \in {"ready", "authenticated", "auth_failure"} :
          DriverEvent(i, ev)
    \/ \E i \in Insts : DriverQr(i)
    \/ \E i \in Insts, ok \in BOOLEAN : QrEncoded(i, ok)
    \/ \E i \in Insts : DriverDisconnected(i)
    \/ \E i \in Insts : InitTimeout(i)
    \/ TickTo(StartTime + StaleTicks * TimeStep)

SpecStale == Init /\ [][NextStale]_vars

\* the steps that are callbacks of a driver or of a guard timer
CallbackOps == {"event", "qrEncoded", "initTimeout"}

\* C35: a callback of a session object that was removed from the registry
\* leaves the session now registered under its identifier registered, with
\* the status and the QR payload it had
C35_StaleCallbacks ==
    [][ \A s \in SessionIds :
          ( /\ last'.op \in CallbackOps
            /\ sessions[s] # 0
            /\ last'.inst # sessions[s]
            /\ inst[last'.inst].sessionId = s
            /\ inst[last'.inst].removed )
             => /\ sessions'[s] = sessions[s]
                /\ inst'[sessions[s]].status = inst[sessions[s]].status
                /\ inst'[sessions[s]].qrCode = inst[sessions[s]].qrCode ]_vars


(***************************************************************************)
(* Overlapping fetches: the one session is ready; a client lists the first *)
(* page of a partition when no call is pending, and another lists the      *)
(* second page while that call waits for the driver, which answers the two *)
(* calls in any order.                                                      *)
(***************************************************************************)
\* a call for the first page is pending and nothing else
FirstPending ==
    /\ BagCardinality(calls) = 1
    /\ \E c \in BagToSet(calls) : c.op = "getChats" /\ c.offset = 0

NextOverlap ==
    \/ CreateSession("a", TRUE)
    \/ \E i \in Insts : DriverEvent(i, "ready")
    \/ calls = EmptyBag /\ \E archived \in BOOLEAN : GetChats("a", archived, 0, 2)
    \/ FirstPending /\ \E archived \in BOOLEAN : GetChats("a", archived, 2, 2)
    \/ \E c \in BagToSet(calls), upstream \in {Upstream1, Upstream3} :
          FetchResolves(c, upstream)

SpecOverlap == Init /\ [][NextOverlap]_vars

\* C36: a fetch never replaces the cache entry of its key that a fetch
\* started after it has stored.  Here the call for the first page starts
\* when nothing is pending and fetches only when its key has no entry or a
\* stale one, so an entry of its key not older than its start was stored
\* by a fetch that started later
C36_NewestFetchWins ==
    [][ \A c \in BagToSet(calls) :
          LET key == CacheKey(c.sessionId, c.archived)
          IN ( /\ c.op = "getChats" /\ c.offset = 0
               /\ CopiesIn(c, calls') < CopiesIn(c, calls)
               /\ chatCache[key] # NoEntry
               /\ chatCache[key].timestamp >= c.startedAt )
                => chatCache'[key] = chatCache[key] ]_vars

====
